---- MODULE Spec2Model ----
(***************************************************************************)
(* Model of the cyberdeck status-display firmware (M5Stack Core1), the     *)
(* three-mode variant of CoreSerial/m5core1_serial/src/main.cpp            *)
(* (lines 265-815): serial line assembly, the key=value parser and the     *)
(* merged stats record, the display-mode state machine driven by the       *)
(* three buttons, the dashboard header cache and the matrix rain columns.  *)
(*                                                                         *)
(* Text is a sequence of one-character strings; positions inside the       *)
(* string helpers are 0-based as in the Arduino String class.  A float is  *)
(* an exact decimal [m |-> mantissa, e |-> decimal places], normalised so  *)
(* that equal values have equal representations.                           *)
(***************************************************************************)
EXTENDS Integers, Sequences, FiniteSets, TLC

VARIABLES
    g_stats,          \* Stats g_stats: the persistent record
    g_lineBuffer,     \* String g_lineBuffer
    g_mode,           \* DisplayMode g_mode
    g_currentArtIndex,
    g_matrixInitialized,
    g_matrixDropY,    \* int g_matrixDropY[MATRIX_COLS], head row per column
    g_matrixTrailLen, \* int g_matrixTrailLen[MATRIX_COLS]
    g_headerIpInitialized,
    g_prev,           \* g_prevUser, g_prevHostname, g_prevLocalIp,
                      \* g_prevPublicIp as one record
    g_lastRedrawMs,   \* uint32_t
    g_animPhase,      \* uint8_t
    pc,               \* position in loop(): "serial", "btnA", "btnB", "btnC", "render"
    btn,              \* wasPressed() of BtnA, BtnB, BtnC as latched by
                      \* M5.update() at the top of loop()
    clock,            \* millis(), uint32_t
    ticks,            \* completed iterations of loop()
    lcd,              \* what the display shows
    artShown,         \* history: the artworks drawn since ASCII art mode
                      \* was last entered from another mode
    drawLog,          \* history: drawing operations of the current iteration
    nlEvents,         \* history: one entry per newline consumed by the last
                      \* processSerialInput call: [raw, buf, parsed, line],
                      \* the buffer at the newline, whether parseStatsLine
                      \* was called, and the line it was called with
    rxCount,          \* history: bytes other than CR/LF received since the
                      \* last newline, capped at LINE_MAX + 1
    callLine,         \* parser harness: the line under test
    callBase,         \* parser harness: the record before the first call
    calls,            \* parser harness: number of parseStatsLine calls made
    bars,             \* the CPU and RAM bars as drawBar last drew them
    wire,             \* the pieces of the host's stream that have not yet
                      \* reached the port, in order
    parsedLog         \* history: the lines handed to parseStatsLine so far

serialVars == <<g_stats, g_lineBuffer, nlEvents, rxCount>>

liveVars == <<wire, parsedLog>>

harnessVars == <<callLine, callBase, calls, bars, liveVars>>

uiVars ==
    <<g_mode, g_currentArtIndex, g_matrixInitialized, g_matrixDropY,
      g_matrixTrailLen, g_headerIpInitialized, g_prev, g_lastRedrawMs,
      g_animPhase, lcd, drawLog, artShown>>

loopVars == <<pc, btn, clock, ticks>>

vars == <<serialVars, harnessVars, uiVars, loopVars>>

(***************************************************************************)
(* Characters and the Arduino String operations the firmware uses.         *)
(***************************************************************************)
CR == "\r"
LF == "\n"
TAB == "\t"

\* isspace() of the C locale, as used by String::trim and by atol/atof.
IsSpace(c) == c \in {" ", TAB, LF, CR}

Digits == <<"0", "1", "2", "3", "4", "5", "6", "7", "8", "9">>

IsDigit(c) == \E i \in 1..10 : Digits[i] = c

DigitVal(c) == (CHOOSE i \in 1..10 : Digits[i] = c) - 1

\* String::trim(): a begin pointer moves right and an end pointer moves left
\* over whitespace; what lies between them is kept.
RECURSIVE TrimBegin(_, _)
TrimBegin(s, i) ==
    IF i <= Len(s) /\ IsSpace(s[i]) THEN TrimBegin(s, i + 1) ELSE i

RECURSIVE TrimEnd(_, _, _)
TrimEnd(s, begin, j) ==
    IF j > begin /\ IsSpace(s[j]) THEN TrimEnd(s, begin, j - 1) ELSE j

Trim(s) ==
    IF Len(s) = 0 THEN <<>>
    ELSE LET begin == TrimBegin(s, 1)
         IN  SubSeq(s, begin, TrimEnd(s, begin, Len(s)))

\* String::indexOf(ch, fromIndex): 0-based position of the first ch at or
\* after fromIndex, -1 when there is none or fromIndex >= length.
IndexOf(s, ch, from) ==
    LET hits == {i \in from..(Len(s) - 1) : s[i + 1] = ch}
    IN  IF hits = {} THEN -1
        ELSE CHOOSE i \in hits : \A j \in hits : i <= j

\* String::substring(left, right): the characters at 0-based positions
\* left .. right-1; bounds swapped when reversed, right clipped to length.
Substring(s, left, right) ==
    LET l == IF left > right THEN right ELSE left
        r0 == IF left > right THEN left ELSE right
        r == IF r0 > Len(s) THEN Len(s) ELSE r0
    IN  IF l >= Len(s) THEN <<>> ELSE SubSeq(s, l + 1, r)

(***************************************************************************)
(* Numeric conversion: String::toInt is atol, String::toFloat is atof.     *)
(* Both skip leading whitespace, take an optional sign and the longest     *)
(* decimal prefix, and give 0 when there is no such prefix.  atof also     *)
(* reads "inf" and "nan" in any case after the sign.  Exponents and        *)
(* hexadecimal spellings are outside the modelled inputs.                  *)
(* A float is the decimal [m, e] (m / 10^e, e >= 0), or one of the         *)
(* special values FloatInf, FloatNegInf, FloatNaN.                         *)
(***************************************************************************)
RECURSIVE SkipSpace(_, _)
SkipSpace(s, i) ==
    IF i <= Len(s) /\ IsSpace(s[i]) THEN SkipSpace(s, i + 1) ELSE i

RECURSIVE DigitRun(_, _)
DigitRun(s, i) ==
    IF i <= Len(s) /\ IsDigit(s[i]) THEN 1 + DigitRun(s, i + 1) ELSE 0

RECURSIVE DigitsValue(_, _, _)
DigitsValue(s, i, n) ==
    IF n = 0 THEN 0
    ELSE DigitsValue(s, i, n - 1) * 10 + DigitVal(s[i + n - 1])

RECURSIVE Pow10(_)
Pow10(n) == IF n = 0 THEN 1 ELSE 10 * Pow10(n - 1)

RECURSIVE Dec(_, _)
Dec(m, e) ==
    IF m = 0 THEN [m |-> 0, e |-> 0]
    ELSE IF e > 0 /\ m % 10 = 0 THEN Dec(m \div 10, e - 1)
    ELSE [m |-> m, e |-> e]

FloatZero == Dec(0, 0)

SignStart(s) == SkipSpace(s, 1)

HasSign(s) == SignStart(s) <= Len(s) /\ s[SignStart(s)] \in {"+", "-"}

IsNegative(s) == SignStart(s) <= Len(s) /\ s[SignStart(s)] = "-"

DigitsStart(s) == IF HasSign(s) THEN SignStart(s) + 1 ELSE SignStart(s)

toInt(s) ==
    LET i == DigitsStart(s)
        v == DigitsValue(s, i, DigitRun(s, i))
    IN  IF IsNegative(s) THEN 0 - v ELSE v

FloatInf == [m |-> 1, e |-> 0 - 1]

FloatNegInf == [m |-> 0 - 1, e |-> 0 - 1]

FloatNaN == [m |-> 0, e |-> 0 - 1]

\* Whether the three characters of s from position i spell `word` in any
\* case (word is given as pairs of small and capital letter).
SpellsAt(s, i, word) ==
    /\ i + 2 <= Len(s)
    /\ \A k \in 1..3 : s[i + k - 1] \in word[k]

toFloat(s) ==
    LET i == DigitsStart(s)
        ni == DigitRun(s, i)
        dot == i + ni
        nf == IF dot <= Len(s) /\ s[dot] = "." THEN DigitRun(s, dot + 1) ELSE 0
        mag == DigitsValue(s, i, ni) * Pow10(nf) + DigitsValue(s, dot + 1, nf)
    IN  IF SpellsAt(s, i, <<{"n", "N"}, {"a", "A"}, {"n", "N"}>>)
        THEN FloatNaN
        ELSE IF SpellsAt(s, i, <<{"i", "I"}, {"n", "N"}, {"f", "F"}>>)
        THEN IF IsNegative(s) THEN FloatNegInf ELSE FloatInf
        ELSE IF ni + nf = 0 THEN FloatZero
        ELSE Dec(IF IsNegative(s) THEN 0 - mag ELSE mag, nf)

(***************************************************************************)
(* Single-precision arithmetic of drawBar.  A non-negative float is        *)
(* [m, x], the number m * 2^x with 2^23 <= m < 2^24, or F32Zero; every     *)
(* operation rounds to nearest, ties to even.                              *)
(***************************************************************************)
F32Zero == [m |-> 0, x |-> 0]

\* Quotient bits of a non-zero ratio, shifted until 24 of them are there:
\* q the bits so far, r the remainder for the divisor d.
RECURSIVE F32Norm(_, _, _, _)
F32Norm(q, r, d, x) ==
    IF q >= 2 ^ 23 THEN [q |-> q, r |-> r, x |-> x]
    ELSE F32Norm(2 * q + (IF 2 * r >= d THEN 1 ELSE 0), (2 * r) % d, d, x - 1)

\* q rounded up when the dropped part (r of d) is above a half, or is a
\* half and q is odd.
F32Round(q, r, d, x) ==
    LET up == 2 * r > d \/ (2 * r = d /\ q % 2 = 1)
        m == IF up THEN q + 1 ELSE q
    IN  IF m = 2 ^ 24 THEN [m |-> 2 ^ 23, x |-> x + 1] ELSE [m |-> m, x |-> x]

\* The float nearest to n / d, for n >= 0, d > 0 and n / d < 2^24.
F32OfRatio(n, d) ==
    IF n = 0 THEN F32Zero
    ELSE LET s == F32Norm(n \div d, n % d, d, 0)
         IN  F32Round(s.q, s.r, d, s.x)

\* f / k for an integer k > 0 that is exactly a float.
F32DivInt(f, k) ==
    LET g == F32OfRatio(f.m, k) IN [m |-> g.m, x |-> g.x + f.x]

\* f * k for an integer 0 < k < 2^8: the product has up to 32 bits, of
\* which the lowest `drop` are rounded away.
F32MulInt(f, k) ==
    LET Kept(t) == (f.m \div 2 ^ t) * k + ((f.m % 2 ^ t) * k) \div 2 ^ t
        drop == IF k = 1 \/ f.m = 0 THEN 0
                ELSE CHOOSE t \in 1..8 :
                        /\ Kept(t) < 2 ^ 24
                        /\ \A u \in 1..8 : Kept(u) < 2 ^ 24 => t <= u
        rest == ((f.m % 2 ^ drop) * k) % 2 ^ drop
    IN  IF f.m = 0 THEN F32Zero
        ELSE IF drop = 1 /\ Kept(1) < 2 ^ 23
        THEN [m |-> f.m * k, x |-> f.x]
        ELSE F32Round(Kept(drop), rest, 2 ^ drop, f.x + drop)

\* (int) f for 0 <= f < 2^24: the fraction is cut off.
F32Trunc(f) ==
    IF f.m = 0 \/ f.x <= 0 - 24 THEN 0
    ELSE IF f.x >= 0 THEN f.m * 2 ^ f.x
    ELSE f.m \div 2 ^ (0 - f.x)

(***************************************************************************)
(* The stats record and the recognised keys (three-mode variant).          *)
(***************************************************************************)
TextFields == {"time", "user", "hostname", "localIp", "publicIp"}

IntFields == {"ramUsedMb", "ramTotalMb"}

FloatFields == {"cpu", "ramPercent", "cpuTempC", "netUpMbps", "netDownMbps"}

Fields == TextFields \cup IntFields \cup FloatFields

\* struct Stats with its default member initialisers.
DefaultStats ==
    [f \in Fields |->
        IF f \in TextFields THEN <<>>
        ELSE IF f \in IntFields THEN 0
        ELSE FloatZero]

K_time ==
    <<"t", "i", "m", "e">>
K_user ==
    <<"u", "s", "e", "r">>
K_hostname ==
    <<"h", "o", "s", "t", "n", "a", "m", "e">>
K_cpu ==
    <<"c", "p", "u">>
K_ram_used_mb ==
    <<"r", "a", "m", "_", "u", "s", "e", "d", "_", "m", "b">>
K_ram_total_mb ==
    <<"r", "a", "m", "_", "t", "o", "t", "a", "l", "_", "m", "b">>
K_ram_percent ==
    <<"r", "a", "m", "_", "p", "e", "r", "c", "e", "n", "t">>
K_local_ip ==
    <<"l", "o", "c", "a", "l", "_", "i", "p">>
K_public_ip ==
    <<"p", "u", "b", "l", "i", "c", "_", "i", "p">>
K_cpu_temp_c ==
    <<"c", "p", "u", "_", "t", "e", "m", "p", "_", "c">>
K_net_up_mbps ==
    <<"n", "e", "t", "_", "u", "p", "_", "m", "b", "p", "s">>
K_net_down_mbps ==
    <<"n", "e", "t", "_", "d", "o", "w", "n", "_", "m", "b", "p", "s">>

\* Mutant of splitKeyValue: key.trim() and value.trim() left out.
splitKeyValueNoTrim(kv) ==
    LET idx == IndexOf(kv, "=", 0)
    IN  IF idx <= 0 THEN [ok |-> FALSE, key |-> <<>>, value |-> <<>>]
        ELSE LET key == Substring(kv, 0, idx)
                 value == Substring(kv, idx + 1, Len(kv))
             IN  [ok |-> Len(key) > 0, key |-> key, value |-> value]

\* splitKeyValue(kv, key, value): ok is the return value.
splitKeyValue(kv) ==
    LET idx == IndexOf(kv, "=", 0)
    IN  IF idx <= 0 THEN [ok |-> FALSE, key |-> <<>>, value |-> <<>>]
        ELSE LET key == Trim(Substring(kv, 0, idx))
                 value == Trim(Substring(kv, idx + 1, Len(kv)))
             IN  [ok |-> Len(key) > 0, key |-> key, value |-> value]

\* Mutant of ApplyKey: a numeric field is assigned only when the conversion
\* gives a non-zero number, so a non-numeric value keeps the stale one.
ApplyKeyKeepStale(next, key, value) ==
    IF key = K_time THEN [next EXCEPT !.time = value]
    ELSE IF key = K_user THEN [next EXCEPT !.user = value]
    ELSE IF key = K_hostname THEN [next EXCEPT !.hostname = value]
    ELSE IF key = K_local_ip THEN [next EXCEPT !.localIp = value]
    ELSE IF key = K_public_ip THEN [next EXCEPT !.publicIp = value]
    ELSE IF key = K_cpu /\ toFloat(value) # FloatZero
        THEN [next EXCEPT !.cpu = toFloat(value)]
    ELSE IF key = K_ram_used_mb /\ toInt(value) # 0
        THEN [next EXCEPT !.ramUsedMb = toInt(value)]
    ELSE IF key = K_ram_total_mb /\ toInt(value) # 0
        THEN [next EXCEPT !.ramTotalMb = toInt(value)]
    ELSE IF key = K_ram_percent /\ toFloat(value) # FloatZero
        THEN [next EXCEPT !.ramPercent = toFloat(value)]
    ELSE IF key = K_cpu_temp_c /\ toFloat(value) # FloatZero
        THEN [next EXCEPT !.cpuTempC = toFloat(value)]
    ELSE IF key = K_net_up_mbps /\ toFloat(value) # FloatZero
        THEN [next EXCEPT !.netUpMbps = toFloat(value)]
    ELSE IF key = K_net_down_mbps /\ toFloat(value) # FloatZero
        THEN [next EXCEPT !.netDownMbps = toFloat(value)]
    ELSE next

\* The if / else-if chain of parseStatsLine: one assignment to next, or none.
ApplyKey(next, key, value) ==
    IF key = K_time THEN [next EXCEPT !.time = value]
    ELSE IF key = K_user THEN [next EXCEPT !.user = value]
    ELSE IF key = K_hostname THEN [next EXCEPT !.hostname = value]
    ELSE IF key = K_cpu THEN [next EXCEPT !.cpu = toFloat(value)]
    ELSE IF key = K_ram_used_mb THEN [next EXCEPT !.ramUsedMb = toInt(value)]
    ELSE IF key = K_ram_total_mb THEN [next EXCEPT !.ramTotalMb = toInt(value)]
    ELSE IF key = K_ram_percent THEN [next EXCEPT !.ramPercent = toFloat(value)]
    ELSE IF key = K_local_ip THEN [next EXCEPT !.localIp = value]
    ELSE IF key = K_public_ip THEN [next EXCEPT !.publicIp = value]
    ELSE IF key = K_cpu_temp_c THEN [next EXCEPT !.cpuTempC = toFloat(value)]
    ELSE IF key = K_net_up_mbps THEN [next EXCEPT !.netUpMbps = toFloat(value)]
    ELSE IF key = K_net_down_mbps THEN [next EXCEPT !.netDownMbps = toFloat(value)]
    ELSE next

\* A key with its capital letters C, P, U, T and H made small.
FoldCase(key) ==
    [i \in 1..Len(key) |->
        CASE key[i] = "C" -> "c"
          [] key[i] = "P" -> "p"
          [] key[i] = "U" -> "u"
          [] key[i] = "T" -> "t"
          [] key[i] = "H" -> "h"
          [] OTHER -> key[i]]

\* Mutant of ParseToken: keys are compared without regard to case.
ParseTokenFoldCase(line, start, end, next) ==
    LET token == Trim(Substring(line, start, end))
    IN  IF Len(token) > 0
        THEN LET kv == splitKeyValue(token)
             IN  IF kv.ok THEN ApplyKey(next, FoldCase(kv.key), kv.value)
                 ELSE next
        ELSE next

\* The body of the while loop for the token that starts at `start` and ends
\* before `end`.
ParseToken(line, start, end, next) ==
    LET token == Trim(Substring(line, start, end))
    IN  IF Len(token) > 0
        THEN LET kv == splitKeyValue(token)
             IN  IF kv.ok THEN ApplyKey(next, kv.key, kv.value) ELSE next
        ELSE next

\* Mutant of ParseLoop: parsing stops at the first token that is not a valid
\* key=value pair.
RECURSIVE ParseLoopAbort(_, _, _)
ParseLoopAbort(line, start, next) ==
    IF ~(start < Len(line)) THEN next
    ELSE LET found == IndexOf(line, ";", start)
             end == IF found < 0 THEN Len(line) ELSE found
             token == Trim(Substring(line, start, end))
         IN  IF Len(token) > 0 /\ ~splitKeyValue(token).ok THEN next
             ELSE ParseLoopAbort(line, end + 1,
                                 ParseToken(line, start, end, next))

\* while (start < line.length()) { ... start = end + 1; }
RECURSIVE ParseLoop(_, _, _)
ParseLoop(line, start, next) ==
    IF ~(start < Len(line)) THEN next
    ELSE LET found == IndexOf(line, ";", start)
             end == IF found < 0 THEN Len(line) ELSE found
         IN  ParseLoop(line, end + 1, ParseToken(line, start, end, next))

\* Mutant of parseStatsLine: next starts as a fresh record instead of a copy
\* of g_stats.
parseStatsLineFresh(line, prev) == ParseLoop(line, 0, DefaultStats)

\* parseStatsLine(line) as a function of the record before the call:
\* Stats next = g_stats; ...; g_stats = next.
parseStatsLine(line, prev) == ParseLoop(line, 0, prev)

(***************************************************************************)
(* processSerialInput: the while loop over the available bytes.            *)
(* st = [buf, stats, events, rx] is the loop's view of g_lineBuffer,       *)
(* g_stats and the two history variables.                                  *)
(***************************************************************************)
LINE_MAX == 512

CapRx(n) == IF n > LINE_MAX THEN LINE_MAX + 1 ELSE n

\* Mutant of ProcessByte: the overflow guard compares with <= instead of <.
ProcessByteOffByOne(st, c) ==
    IF c = CR THEN st
    ELSE IF c = LF
    THEN LET line == Trim(st.buf)
             parsed == Len(line) > 0
         IN  [buf |-> <<>>,
              stats |-> IF parsed THEN parseStatsLine(line, st.stats)
                        ELSE st.stats,
              events |-> Append(st.events,
                                [raw |-> st.rx, buf |-> st.buf,
                                 parsed |-> parsed, line |-> line]),
              rx |-> 0]
    ELSE [st EXCEPT
            !.buf = IF Len(st.buf) <= LINE_MAX THEN Append(st.buf, c) ELSE <<>>,
            !.rx = CapRx(st.rx + 1)]

\* Mutant of ProcessByte: line.trim() left out.
ProcessByteNoTrim(st, c) ==
    IF c = CR THEN st
    ELSE IF c = LF
    THEN LET line == st.buf
             parsed == Len(line) > 0
         IN  [buf |-> <<>>,
              stats |-> IF parsed THEN parseStatsLine(line, st.stats)
                        ELSE st.stats,
              events |-> Append(st.events,
                                [raw |-> st.rx, buf |-> st.buf,
                                 parsed |-> parsed, line |-> line]),
              rx |-> 0]
    ELSE [st EXCEPT
            !.buf = IF Len(st.buf) < LINE_MAX THEN Append(st.buf, c) ELSE <<>>,
            !.rx = CapRx(st.rx + 1)]

\* Mutant of ProcessByte: the buffer is not emptied after a newline.
ProcessByteNoClear(st, c) ==
    IF c = CR THEN st
    ELSE IF c = LF
    THEN LET line == Trim(st.buf)
             parsed == Len(line) > 0
         IN  [buf |-> st.buf,
              stats |-> IF parsed THEN parseStatsLine(line, st.stats)
                        ELSE st.stats,
              events |-> Append(st.events,
                                [raw |-> st.rx, buf |-> st.buf,
                                 parsed |-> parsed, line |-> line]),
              rx |-> 0]
    ELSE [st EXCEPT
            !.buf = IF Len(st.buf) < LINE_MAX THEN Append(st.buf, c) ELSE <<>>,
            !.rx = CapRx(st.rx + 1)]

\* Mutant of ProcessByte: the byte that finds the buffer full starts the
\* new buffer instead of being dropped.
ProcessByteKeepTrigger(st, c) ==
    IF c = CR THEN st
    ELSE IF c = LF
    THEN LET line == Trim(st.buf)
             parsed == Len(line) > 0
         IN  [buf |-> <<>>,
              stats |-> IF parsed THEN parseStatsLine(line, st.stats)
                        ELSE st.stats,
              events |-> Append(st.events,
                                [raw |-> st.rx, buf |-> st.buf,
                                 parsed |-> parsed, line |-> line]),
              rx |-> 0]
    ELSE [st EXCEPT
            !.buf = IF Len(st.buf) < LINE_MAX THEN Append(st.buf, c) ELSE <<c>>,
            !.rx = CapRx(st.rx + 1)]

\* Mutant of ProcessByte: a token is applied to the record as soon as the
\* ';' that ends it arrives.
ProcessByteEager(st, c) ==
    IF c = CR THEN st
    ELSE IF c = LF
    THEN LET line == Trim(st.buf)
             parsed == Len(line) > 0
         IN  [buf |-> <<>>,
              stats |-> IF parsed THEN parseStatsLine(line, st.stats)
                        ELSE st.stats,
              events |-> Append(st.events,
                                [raw |-> st.rx, buf |-> st.buf,
                                 parsed |-> parsed, line |-> line]),
              rx |-> 0]
    ELSE [st EXCEPT
            !.buf = IF Len(st.buf) < LINE_MAX THEN Append(st.buf, c) ELSE <<>>,
            !.stats = IF c = ";" THEN parseStatsLine(st.buf, st.stats)
                      ELSE st.stats,
            !.rx = CapRx(st.rx + 1)]

\* Mutant of ProcessByte: a carriage return is stored like any other byte.
ProcessByteKeepCR(st, c) ==
    IF c = LF
    THEN LET line == Trim(st.buf)
             parsed == Len(line) > 0
         IN  [buf |-> <<>>,
              stats |-> IF parsed THEN parseStatsLine(line, st.stats)
                        ELSE st.stats,
              events |-> Append(st.events,
                                [raw |-> st.rx, buf |-> st.buf,
                                 parsed |-> parsed, line |-> line]),
              rx |-> 0]
    ELSE [st EXCEPT
            !.buf = IF Len(st.buf) < LINE_MAX THEN Append(st.buf, c) ELSE <<>>,
            !.rx = CapRx(st.rx + 1)]

\* One iteration of the loop, for the byte c.
ProcessByte(st, c) ==
    IF c = CR THEN st
    ELSE IF c = LF
    THEN LET line == Trim(st.buf)
             parsed == Len(line) > 0
         IN  [buf |-> <<>>,
              stats |-> IF parsed THEN parseStatsLine(line, st.stats)
                        ELSE st.stats,
              events |-> Append(st.events,
                                [raw |-> st.rx, buf |-> st.buf,
                                 parsed |-> parsed, line |-> line]),
              rx |-> 0]
    ELSE [st EXCEPT
            !.buf = IF Len(st.buf) < LINE_MAX THEN Append(st.buf, c) ELSE <<>>,
            !.rx = CapRx(st.rx + 1)]

\* The iterations for bytes[lo..hi], in order (split in halves so that the
\* evaluation depth stays logarithmic in the number of bytes).
RECURSIVE ProcessBytes(_, _, _, _)
ProcessBytes(st, bytes, lo, hi) ==
    IF lo > hi THEN st
    ELSE IF lo = hi THEN ProcessByte(st, bytes[lo])
    ELSE LET mid == (lo + hi) \div 2
             left == ProcessBytes(st, bytes, lo, mid)
         IN  IF left.rx >= 0 THEN ProcessBytes(left, bytes, mid + 1, hi)
             ELSE left

\* processSerialInput() that assembles lines but merges none once the rain
\* has been started.
processSerialInputNotInRain(bytes) ==
    LET st == ProcessBytes([buf |-> g_lineBuffer, stats |-> g_stats,
                            events |-> <<>>, rx |-> rxCount],
                          bytes, 1, Len(bytes))
    IN  /\ g_lineBuffer' = st.buf
        /\ g_stats' = IF g_matrixInitialized THEN g_stats ELSE st.stats
        /\ nlEvents' = st.events
        /\ rxCount' = st.rx

\* processSerialInput() reading one byte per call.
processSerialInputOneByte(bytes) ==
    LET st == ProcessBytes([buf |-> g_lineBuffer, stats |-> g_stats,
                            events |-> <<>>, rx |-> rxCount],
                          bytes, 1, IF Len(bytes) > 0 THEN 1 ELSE 0)
    IN  /\ g_lineBuffer' = st.buf
        /\ g_stats' = st.stats
        /\ nlEvents' = st.events
        /\ rxCount' = st.rx

\* processSerialInput() when `bytes` are the bytes available on the port.
processSerialInput(bytes) ==
    LET st == ProcessBytes([buf |-> g_lineBuffer, stats |-> g_stats,
                            events |-> <<>>, rx |-> rxCount],
                          bytes, 1, Len(bytes))
    IN  /\ g_lineBuffer' = st.buf
        /\ g_stats' = st.stats
        /\ nlEvents' = st.events
        /\ rxCount' = st.rx

(***************************************************************************)
(* Inputs.  Protocol lines the host may send (without their terminator).   *)
(***************************************************************************)
\* 'cpu=12.3;ram_used_mb=1024'
TL_cpu_ram ==
    <<"c", "p", "u", "=", "1", "2", ".", "3", ";", "r", "a", "m", "_", "u", "s", "e", "d", "_", "m", "b", "=", "1", "0", "2", "4">>
\* 'ram_percent=25.9'
TL_ram_percent ==
    <<"r", "a", "m", "_", "p", "e", "r", "c", "e", "n", "t", "=", "2", "5", ".", "9">>
\* 'cpu=10;=5;ram_percent=20'
TL_empty_key ==
    <<"c", "p", "u", "=", "1", "0", ";", "=", "5", ";", "r", "a", "m", "_", "p", "e", "r", "c", "e", "n", "t", "=", "2", "0">>
\* 'cpu=10;badtoken;ram_percent=20'
TL_no_equals ==
    <<"c", "p", "u", "=", "1", "0", ";", "b", "a", "d", "t", "o", "k", "e", "n", ";", "r", "a", "m", "_", "p", "e", "r", "c", "e", "n", "t", "=", "2", "0">>
\* 'cpu=10;ram_percent=20'
TL_clean ==
    <<"c", "p", "u", "=", "1", "0", ";", "r", "a", "m", "_", "p", "e", "r", "c", "e", "n", "t", "=", "2", "0">>
\* 'cpu=abc'
TL_cpu_abc ==
    <<"c", "p", "u", "=", "a", "b", "c">>
\* 'user=pi; hostname = deck ;local_ip=10.0.0.2;'
TL_identity ==
    <<"u", "s", "e", "r", "=", "p", "i", ";", " ", "h", "o", "s", "t", "n", "a", "m", "e", " ", "=", " ", "d", "e", "c", "k", " ", ";", "l", "o", "c", "a", "l", "_", "i", "p", "=", "1", "0", ".", "0", ".", "0", ".", "2", ";">>
\* 'CPU=99;load_1=0.5;bogus=1'
TL_unknown ==
    <<"C", "P", "U", "=", "9", "9", ";", "l", "o", "a", "d", "_", "1", "=", "0", ".", "5", ";", "b", "o", "g", "u", "s", "=", "1">>
\* 'time=12:00;public_ip=1.2.3.4;cpu_temp_c=48.5'
TL_time_wan ==
    <<"t", "i", "m", "e", "=", "1", "2", ":", "0", "0", ";", "p", "u", "b", "l", "i", "c", "_", "i", "p", "=", "1", ".", "2", ".", "3", ".", "4", ";", "c", "p", "u", "_", "t", "e", "m", "p", "_", "c", "=", "4", "8", ".", "5">>
\* 'net_up_mbps=1.25;net_down_mbps=x9;ram_total_mb=3950'
TL_net ==
    <<"n", "e", "t", "_", "u", "p", "_", "m", "b", "p", "s", "=", "1", ".", "2", "5", ";", "n", "e", "t", "_", "d", "o", "w", "n", "_", "m", "b", "p", "s", "=", "x", "9", ";", "r", "a", "m", "_", "t", "o", "t", "a", "l", "_", "m", "b", "=", "3", "9", "5", "0">>
\* 'ram_used_mb=12abc;ram_total_mb=;cpu=-'
TL_prefixes ==
    <<"r", "a", "m", "_", "u", "s", "e", "d", "_", "m", "b", "=", "1", "2", "a", "b", "c", ";", "r", "a", "m", "_", "t", "o", "t", "a", "l", "_", "m", "b", "=", ";", "c", "p", "u", "=", "-">>
\* 'cpu=7;;cpu=8.50'
TL_twice ==
    <<"c", "p", "u", "=", "7", ";", ";", "c", "p", "u", "=", "8", ".", "5", "0">>
\* '=1;noeq;ram_used_mb=77'
TL_bad_first ==
    <<"=", "1", ";", "n", "o", "e", "q", ";", "r", "a", "m", "_", "u", "s", "e", "d", "_", "m", "b", "=", "7", "7">>
\* 'cpu=5;ram_'
TL_half ==
    <<"c", "p", "u", "=", "5", ";", "r", "a", "m", "_">>
\* 'cpu=5'
TL_tail ==
    <<"c", "p", "u", "=", "5">>

\* 'cpu=abc;ram_used_mb=zz;ram_percent=20'
TL_abc_then ==
    <<"c", "p", "u", "=", "a", "b", "c", ";", "r", "a", "m", "_", "u", "s", "e", "d", "_", "m", "b", "=", "z", "z", ";", "r", "a", "m", "_", "p", "e", "r", "c", "e", "n", "t", "=", "2", "0">>
\* ' cpu=5 \t'
TL_padded ==
    <<" ", "c", "p", "u", "=", "5", " ", TAB>>

\* 'hostname=nas;cpu=50'
TL_host2 ==
    <<"h", "o", "s", "t", "n", "a", "m", "e", "=", "n", "a", "s", ";", "c", "p", "u", "=", "5", "0">>

\* 'Time=1;cpu_temp=50;ram=2; Hostname = x'
TL_near ==
    <<"T", "i", "m", "e", "=", "1", ";", "c", "p", "u", "_", "t", "e", "m", "p", "=", "5", "0", ";", "r", "a", "m", "=", "2", ";", " ", "H", "o", "s", "t", "n", "a", "m", "e", " ", "=", " ", "x">>

\* 'cp\ru=1\r2'
TL_cr_inside ==
    <<"c", "p", CR, "u", "=", "1", CR, "2">>

\* Lines offered to parseStatsLine directly.
ParseLines ==
    {TL_cpu_ram, TL_ram_percent, TL_empty_key, TL_no_equals, TL_clean,
     TL_cpu_abc, TL_identity, TL_unknown, TL_time_wan, TL_net, TL_prefixes,
     TL_twice, TL_bad_first, TL_tail, TL_abc_then, TL_near}

\* Lines that arrive on the serial port.
SerialLines ==
    {TL_cpu_ram, TL_ram_percent, TL_empty_key, TL_cpu_abc, TL_identity,
     TL_unknown}

\* Single bytes that arrive on the serial port.
SerialBytes == {"x", " ", ";", "=", CR, LF}

Fill(n) == [i \in 1..n |-> "x"]

\* Unterminated runs around the buffer limit; LINE_MAX + 88 is 600 bytes.
FloodSizes == {LINE_MAX - 1, LINE_MAX, LINE_MAX + 1, LINE_MAX + 88}

\* What one call of processSerialInput may find available on the port:
\* single bytes, whole lines (LF or CR LF terminated), part of a line, two
\* lines at once.
Arrivals ==
    {<<b>> : b \in SerialBytes}
        \cup {l \o <<LF>> : l \in SerialLines}
        \cup {TL_padded \o <<CR, LF>>, TL_cr_inside \o <<CR, LF>>, TL_half,
              TL_cpu_ram \o <<LF>> \o TL_ram_percent \o <<LF>>}

\* The same port under a flood: single bytes, one short line, and long
\* unterminated runs.
FloodArrivals ==
    {<<b>> : b \in SerialBytes}
        \cup {TL_tail \o <<LF>>}
        \cup {Fill(n) : n \in FloodSizes}

\* Free-form bytes are explored up to this many buffered characters.
MaxPartial == 2

\* The host is taken to send short free-form text, whole lines, or floods:
\* terminators are always possible, other input while the buffer is short or
\* within one byte of the limit.
MayArrive(bytes) ==
    \/ bytes \in {<<CR>>, <<LF>>}
    \/ Len(g_lineBuffer) < MaxPartial
    \/ Len(bytes) = 1 /\ Len(g_lineBuffer) >= LINE_MAX - 1

\* Number of parseStatsLine calls made on one line by the parser harness.
MaxCalls == 2

\* Records the parser harness starts from: the default record and the
\* records one line produces from it.
BaseRecords ==
    {DefaultStats} \cup {parseStatsLine(l, DefaultStats) : l \in ParseLines}

(***************************************************************************)
(* Display modes, the ASCII art cursor, the dashboard and the matrix rain. *)
(* u is the record of the globals these functions read and write:          *)
(* [mode, art, minit, dropY, trail, hinit, prev, last, phase, lcd, log].   *)
(***************************************************************************)
MODE_DASHBOARD == 0
MODE_MATRIX == 1
MODE_ART == 2

\* sizeof(g_asciiArts) / sizeof(g_asciiArts[0]): ART_ARCHLOGO, ART_CYBRDECK.
g_numAsciiArts == 2

MATRIX_TEXT_HEIGHT == 8
MATRIX_SCREEN_H == 240
MATRIX_TRAIL_MIN_ROWS == 4
MATRIX_TRAIL_MAX_ROWS == 12

\* Number of rain columns kept by the model (40 in the firmware, each handled
\* by the same loop body independently of the others).
MATRIX_COLS == 2

MatrixCols == 0..(MATRIX_COLS - 1)

\* int rows = MATRIX_SCREEN_H / MATRIX_TEXT_HEIGHT;
MatrixRows == MATRIX_SCREEN_H \div MATRIX_TEXT_HEIGHT

\* The dashboard redraw interval and the delay(500) of setup().
REDRAW_MS == 200
BOOT_MS == 500

\* delay(30) of the matrix branch and delay(5) at the end of loop().
MATRIX_DELAY_MS == 30
LOOP_DELAY_MS == 5

UINT8 == 2 ^ 8

\* uint32_t values are kept as two 16-bit halves [hi, lo], arithmetic is
\* modulo 2^32.
HALF == 2 ^ 16

U32(n) == [hi |-> n \div HALF, lo |-> n % HALF]

U32Add(a, n) ==
    [hi |-> (a.hi + (a.lo + n) \div HALF) % HALF, lo |-> (a.lo + n) % HALF]

U32Sub(a, b) ==
    [hi |-> (a.hi - b.hi - (IF a.lo < b.lo THEN 1 ELSE 0)) % HALF,
     lo |-> (a.lo - b.lo) % HALF]

\* a > n for an n below 2^16.
U32Gt(a, n) == a.hi > 0 \/ a.lo > n

(***************************************************************************)
(* drawBar, in the plain form of the three-mode firmware and in the        *)
(* scanline form of the two-row firmware.  A drawn bar is recorded as      *)
(* [percent, inner, filled, painted, scan]: the argument, w - 2, the       *)
(* local `filled`, the width filled with the bar's colour, and the colour  *)
(* of the scanline overlay ("none" when there is none).                    *)
(***************************************************************************)
NoBars == <<>>

\* percent < 0.0f, false for a NaN.
FloatNegative(p) == p.m < 0

\* percent > 100.0f, false for a NaN.
FloatAbove100(p) == IF p.e < 0 THEN p.m > 0 ELSE p.m > 100 * Pow10(p.e)

\* The two clamping statements at the head of drawBar.
ClampPercent(percent) ==
    LET p == IF FloatNegative(percent) THEN FloatZero ELSE percent
    IN  IF FloatAbove100(p) THEN Dec(100, 0) ELSE p

\* What (int) may give for a NaN, which C++ leaves undefined: the
\* saturated values of the FPU's conversion and the 0 of a software one.
IntOfNaN == {0 - 2147483647, 0, 2147483647}

\* int filled = (int)((percent / 100.0f) * innerW), for a clamped percent;
\* nan is what the conversion gives should the product be a NaN.
BarFilled(percent, innerW, nan) ==
    IF percent = FloatNaN THEN nan
    ELSE F32Trunc(F32MulInt(F32DivInt(F32OfRatio(percent.m, Pow10(percent.e)),
                                      100),
                            innerW))

\* drawBar of the three-mode firmware.
drawBar(w, percent, nan) ==
    LET innerW == w - 2
        filled == BarFilled(ClampPercent(percent), innerW, nan)
    IN  [percent |-> percent, inner |-> innerW, filled |-> filled,
         painted |-> IF filled > 0 THEN filled ELSE 0, scan |-> "none"]

\* drawBar of the two-row firmware, with the scanline overlay.
drawBarScanline(w, percent, nan, phase) ==
    LET innerW == w - 2
        filled == BarFilled(ClampPercent(percent), innerW, nan)
    IN  [percent |-> percent, inner |-> innerW, filled |-> filled,
         painted |-> IF filled > 0 THEN filled ELSE 0,
         scan |-> IF filled > 0
                  THEN (IF phase % 4 < 2 THEN "black" ELSE "darkgreen")
                  ELSE "none"]

\* cpuBarW and ramBarW of drawDynamicStats (three-mode firmware), barW of
\* drawDynamicStats (two-row firmware).
cpuBarW == 145
ramBarW == 190
barW == 240

\* The display: whether the static dashboard frame is on screen, the
\* header/IP block and the dynamic rows as last drawn (<<>> when not on
\* screen), the artwork on screen (-1 for none), and for each column of
\* the rain the rows whose character cell holds a character.
BlankLcd ==
    [frame |-> FALSE, header |-> <<>>, dyn |-> <<>>, art |-> 0 - 1,
     rain |-> [c \in MatrixCols |-> {}]]

\* drawStaticFrame(): fillScreen, then the frame, divider and labels.
StaticFrameLcd == [BlankLcd EXCEPT !.frame = TRUE]

\* The three texts of the header/IP block.
HeaderBlock(stats) ==
    [head |-> IF Len(stats.user) > 0 /\ Len(stats.hostname) > 0
              THEN stats.user \o <<"@">> \o stats.hostname
              ELSE IF Len(stats.hostname) > 0 THEN stats.hostname
              ELSE <<"?", "@", "?">>,
     lan |-> IF Len(stats.localIp) > 0 THEN stats.localIp
             ELSE <<"n", "/", "a">>,
     wan |-> IF Len(stats.publicIp) > 0 THEN stats.publicIp
             ELSE <<"n", "/", "a">>]

\* The values the rows of drawDynamicStats are drawn from.
DynRows(stats) ==
    [time |-> stats.time, netUpMbps |-> stats.netUpMbps,
     netDownMbps |-> stats.netDownMbps, cpu |-> stats.cpu,
     cpuTempC |-> stats.cpuTempC, ramPercent |-> stats.ramPercent,
     ramTotalMb |-> stats.ramTotalMb]

HeaderValues(stats) ==
    [user |-> stats.user, hostname |-> stats.hostname,
     localIp |-> stats.localIp, publicIp |-> stats.publicIp]

\* renderCurrentArt()
renderCurrentArt(u) ==
    LET idx == u.art % g_numAsciiArts
    IN  [u EXCEPT !.lcd = [BlankLcd EXCEPT !.art = idx],
                  !.log = Append(@, <<"art", idx>>),
                  !.shown = Append(@, idx)]

\* Button A without the reset of g_headerIpInitialized.
PressAKeepCache(u) ==
    [u EXCEPT !.mode = MODE_DASHBOARD,
              !.lcd = StaticFrameLcd,
              !.log = Append(@, <<"frame">>)]

\* if (M5.BtnA.wasPressed()) { ... }
PressA(u) ==
    [u EXCEPT !.mode = MODE_DASHBOARD,
              !.hinit = FALSE,
              !.lcd = StaticFrameLcd,
              !.log = Append(@, <<"frame">>)]

\* Button B advancing the cursor without the wraparound.
PressBNoWrap(u) ==
    renderCurrentArt(
        IF u.mode # MODE_ART
        THEN [u EXCEPT !.mode = MODE_ART, !.art = 0, !.shown = <<>>]
        ELSE [u EXCEPT !.art = u.art + 1])

\* Button B selecting the artwork without drawing it.
PressBNoRender(u) ==
    IF u.mode # MODE_ART
    THEN [u EXCEPT !.mode = MODE_ART, !.art = 0]
    ELSE [u EXCEPT !.art = (u.art + 1) % g_numAsciiArts]

\* if (M5.BtnB.wasPressed()) { ... }
PressB(u) ==
    renderCurrentArt(
        IF u.mode # MODE_ART
        THEN [u EXCEPT !.mode = MODE_ART, !.art = 0, !.shown = <<>>]
        ELSE [u EXCEPT !.art = (u.art + 1) % g_numAsciiArts])

\* if (M5.BtnC.wasPressed()) { ... }
PressC(u) == [u EXCEPT !.mode = MODE_MATRIX, !.minit = FALSE]

\* drawHeaderAndIpIfNeeded() without the comparison of the public IP.
drawHeaderIgnoresPublicIp(u, stats) ==
    IF \/ ~u.hinit
       \/ u.prev.user # stats.user
       \/ u.prev.hostname # stats.hostname
       \/ u.prev.localIp # stats.localIp
    THEN [u EXCEPT !.hinit = TRUE,
                   !.prev = HeaderValues(stats),
                   !.lcd.header = <<HeaderBlock(stats)>>,
                   !.log = Append(@, <<"header">>)]
    ELSE u

\* drawHeaderAndIpIfNeeded() without the test of g_headerIpInitialized.
drawHeaderOnChangeOnly(u, stats) ==
    IF \/ u.prev.user # stats.user
       \/ u.prev.hostname # stats.hostname
       \/ u.prev.localIp # stats.localIp
       \/ u.prev.publicIp # stats.publicIp
    THEN [u EXCEPT !.hinit = TRUE,
                   !.prev = HeaderValues(stats),
                   !.lcd.header = <<HeaderBlock(stats)>>,
                   !.log = Append(@, <<"header">>)]
    ELSE u

\* drawHeaderAndIpIfNeeded()
drawHeaderAndIpIfNeeded(u, stats) ==
    IF \/ ~u.hinit
       \/ u.prev.user # stats.user
       \/ u.prev.hostname # stats.hostname
       \/ u.prev.localIp # stats.localIp
       \/ u.prev.publicIp # stats.publicIp
    THEN [u EXCEPT !.hinit = TRUE,
                   !.prev = HeaderValues(stats),
                   !.lcd.header = <<HeaderBlock(stats)>>,
                   !.log = Append(@, <<"header">>)]
    ELSE u

\* drawDynamicStats()
drawDynamicStats(u, stats) ==
    [u EXCEPT !.lcd.dyn = <<DynRows(stats)>>,
              !.log = Append(@, <<"stats">>)]

\* The dashboard branch without the 200 ms gate.
RenderDashboardUngated(u, stats, now) ==
    drawDynamicStats(
        drawHeaderAndIpIfNeeded(
            [u EXCEPT !.last = now, !.phase = (@ + 1) % UINT8], stats),
        stats)

\* The dashboard branch with the gate `now > g_lastRedrawMs + 200`, the sum
\* taken in uint32_t.
RenderDashboardDeadline(u, stats, now) ==
    LET due == U32Add(u.last, REDRAW_MS)
    IN  IF now.hi > due.hi \/ (now.hi = due.hi /\ now.lo > due.lo)
        THEN drawDynamicStats(
                 drawHeaderAndIpIfNeeded(
                     [u EXCEPT !.last = now, !.phase = (@ + 1) % UINT8],
                     stats),
                 stats)
        ELSE u

\* The MODE_DASHBOARD branch of loop() when millis() returns now.
RenderDashboard(u, stats, now) ==
    IF U32Gt(U32Sub(now, u.last), REDRAW_MS)
    THEN drawDynamicStats(
             drawHeaderAndIpIfNeeded(
                 [u EXCEPT !.last = now, !.phase = (@ + 1) % UINT8], stats),
             stats)
    ELSE u

\* An ASCII art branch that redrew the artwork on every iteration.
RenderArtRedraws(u) == renderCurrentArt(u)

\* The MODE_ART branch of loop(): nothing is done per frame.
RenderArt(u) == u

\* What random(rows) and random(MIN, MAX + 1) may return for one column: the
\* model draws the two from the same end of their ranges.
RandomChoices ==
    {<<0, MATRIX_TRAIL_MIN_ROWS>>, <<MatrixRows - 1, MATRIX_TRAIL_MAX_ROWS>>}

\* One pair of random() results per column.
Draws == [MatrixCols -> RandomChoices]

NoDraw == <<0, MATRIX_TRAIL_MIN_ROWS>>

\* initMatrixMode() seeding the heads below the top row.
initMatrixModeBelowTop(u, d) ==
    [u EXCEPT !.lcd = BlankLcd,
              !.dropY = [c \in MatrixCols |-> d[c][1]],
              !.trail = [c \in MatrixCols |-> d[c][2]],
              !.minit = TRUE,
              !.log = Append(@, <<"matrixInit">>)]

\* initMatrixMode() with the random() results d.
initMatrixMode(u, d) ==
    [u EXCEPT !.lcd = BlankLcd,
              !.dropY = [c \in MatrixCols |-> 0 - d[c][1]],
              !.trail = [c \in MatrixCols |-> d[c][2]],
              !.minit = TRUE,
              !.log = Append(@, <<"matrixInit">>)]

\* Row r is on the screen: r >= 0 && r * MATRIX_TEXT_HEIGHT < MATRIX_SCREEN_H.
RowOnScreen(r) == r >= 0 /\ r * MATRIX_TEXT_HEIGHT < MATRIX_SCREEN_H

\* The cells of a column without the erasing of the cell on the top row.
ColumnCellsKeepTop(lit, headRow, trailLen) ==
    LET tailRow == headRow - trailLen
        midRow == headRow - 1
        erased == IF tailRow > 0 /\ RowOnScreen(tailRow) THEN lit \ {tailRow}
                  ELSE lit
        mid == IF RowOnScreen(midRow) THEN erased \cup {midRow} ELSE erased
    IN  IF RowOnScreen(headRow) THEN mid \cup {headRow} ELSE mid

\* The cells of a column after the three drawing steps of matrixStep for a
\* head at headRow: the cell trailLen rows behind the head is cleared, the
\* cell one row behind and the cell of the head get a character.
ColumnCells(lit, headRow, trailLen) ==
    LET tailRow == headRow - trailLen
        midRow == headRow - 1
        erased == IF RowOnScreen(tailRow) THEN lit \ {tailRow} ELSE lit
        mid == IF RowOnScreen(midRow) THEN erased \cup {midRow} ELSE erased
    IN  IF RowOnScreen(headRow) THEN mid \cup {headRow} ELSE mid

\* The screen after the drawing of one matrixStep in state v.
RainLcd(v) ==
    [v.lcd EXCEPT
        !.rain = [c \in MatrixCols |->
                     ColumnCells(v.lcd.rain[c], v.dropY[c], v.trail[c])]]

\* A respawn test that ignores the trail.
RespawnsAtBottom(y, t) == y + 1 >= MatrixRows

\* The respawn test of matrixStep for a column whose head is at row y.
Respawns(y, t) == y + 1 >= MatrixRows + t

\* matrixStep() drawing a new trail length on every step.
matrixStepNewTrail(u, di, dr) ==
    LET v == IF ~u.minit THEN initMatrixMode(u, di) ELSE u
    IN  [v EXCEPT
            !.dropY = [c \in MatrixCols |->
                          IF Respawns(v.dropY[c], v.trail[c])
                          THEN 0 - dr[c][1] ELSE v.dropY[c] + 1],
            !.trail = [c \in MatrixCols |-> dr[c][2]],
            !.lcd = RainLcd(v),
            !.log = Append(@, <<"matrixStep">>)]

\* matrixStep() without the lazy initMatrixMode() call.
matrixStepNoInit(u, di, dr) ==
    [u EXCEPT
        !.dropY = [c \in MatrixCols |->
                      IF Respawns(u.dropY[c], u.trail[c])
                      THEN 0 - dr[c][1] ELSE u.dropY[c] + 1],
        !.trail = [c \in MatrixCols |->
                      IF Respawns(u.dropY[c], u.trail[c])
                      THEN dr[c][2] ELSE u.trail[c]],
        !.lcd = RainLcd(u),
        !.log = Append(@, <<"matrixStep">>)]

\* matrixStep() with the random() results di of initMatrixMode and dr of the
\* respawns.
matrixStep(u, di, dr) ==
    LET v == IF ~u.minit THEN initMatrixMode(u, di) ELSE u
    IN  [v EXCEPT
            !.dropY = [c \in MatrixCols |->
                          IF Respawns(v.dropY[c], v.trail[c])
                          THEN 0 - dr[c][1] ELSE v.dropY[c] + 1],
            !.trail = [c \in MatrixCols |->
                          IF Respawns(v.dropY[c], v.trail[c])
                          THEN dr[c][2] ELSE v.trail[c]],
            !.lcd = RainLcd(v),
            !.log = Append(@, <<"matrixStep">>)]

\* The random() calls matrixStep makes in state u: none is drawn for a call
\* that is not made.
InitDraws(u) == IF u.minit THEN {[c \in MatrixCols |-> NoDraw]} ELSE Draws

RespawnDraws(u) ==
    {dr \in Draws :
        \A c \in MatrixCols :
            (~u.minit \/ ~Respawns(u.dropY[c], u.trail[c])) => dr[c] = NoDraw}

UiState ==
    [mode |-> g_mode, art |-> g_currentArtIndex, minit |-> g_matrixInitialized,
     dropY |-> g_matrixDropY, trail |-> g_matrixTrailLen,
     hinit |-> g_headerIpInitialized, prev |-> g_prev, last |-> g_lastRedrawMs,
     phase |-> g_animPhase, lcd |-> lcd, log |-> drawLog,
     shown |-> artShown]

SetUi(u) ==
    /\ g_mode' = u.mode
    /\ g_currentArtIndex' = u.art
    /\ g_matrixInitialized' = u.minit
    /\ g_matrixDropY' = u.dropY
    /\ g_matrixTrailLen' = u.trail
    /\ g_headerIpInitialized' = u.hinit
    /\ g_prev' = u.prev
    /\ g_lastRedrawMs' = u.last
    /\ g_animPhase' = u.phase
    /\ lcd' = u.lcd
    /\ drawLog' = u.log
    /\ artShown' = u.shown

(***************************************************************************)
(* Specifications.                                                         *)
(***************************************************************************)
\* Iterations of loop() explored.
MaxTicks == 3

\* Milliseconds that may pass between two iterations' millis() reads.
TickMs == {5, 201}

\* What processSerialInput may find available in one iteration of loop().
LoopArrivals ==
    {<<>>, TL_identity \o <<LF>>}

\* The globals other than g_stats after their initialisers and setup().
InitGlobals ==
    /\ g_lineBuffer = <<>>
    /\ g_mode = MODE_DASHBOARD
    /\ g_currentArtIndex = 0
    /\ g_matrixInitialized = FALSE
    /\ g_matrixDropY = [c \in MatrixCols |-> 0]
    /\ g_matrixTrailLen = [c \in MatrixCols |-> 0]
    /\ g_headerIpInitialized = FALSE
    /\ g_prev = HeaderValues(DefaultStats)
    /\ g_lastRedrawMs = U32(0)
    /\ g_animPhase = 0
    /\ lcd = StaticFrameLcd
    /\ clock = U32(BOOT_MS)
    /\ pc = "serial"
    /\ btn = [A |-> FALSE, B |-> FALSE, C |-> FALSE]
    /\ ticks = 0
    /\ drawLog = <<>>
    /\ artShown = <<>>
    /\ nlEvents = <<>>
    /\ rxCount = 0
    /\ bars = NoBars
    /\ parsedLog = <<>>

Init ==
    /\ InitGlobals
    /\ g_stats = DefaultStats
    /\ callLine = <<>>
    /\ callBase = DefaultStats
    /\ calls = 0
    /\ wire = <<>>

\* The edges M5.update() may latch: any combination of the three buttons.
AllEdges == [A : BOOLEAN, B : BOOLEAN, C : BOOLEAN]

\* loop(): M5.update() latches the button edges, then processSerialInput().
\* The iteration latches one of `edges`, finds one of `arrivals` on the
\* port, and is one of the first `limit` iterations.
LoopUpdateSerialOn(edges, arrivals, limit) ==
    /\ pc = "serial"
    /\ ticks < limit
    /\ \E e \in edges : btn' = e
    /\ \E bytes \in arrivals : processSerialInput(bytes)
    /\ drawLog' = <<>>
    /\ pc' = "btnA"
    /\ UNCHANGED <<g_mode, g_currentArtIndex, g_matrixInitialized,
                   g_matrixDropY, g_matrixTrailLen, g_headerIpInitialized,
                   g_prev, g_lastRedrawMs, g_animPhase, lcd, artShown>>
    /\ UNCHANGED <<clock, ticks, harnessVars>>

LoopUpdateSerial == LoopUpdateSerialOn(AllEdges, LoopArrivals, MaxTicks)

\* loop(): if (M5.BtnA.wasPressed()) { ... }
LoopBtnA ==
    /\ pc = "btnA"
    /\ SetUi(IF btn.A THEN PressA(UiState) ELSE UiState)
    /\ pc' = "btnB"
    /\ UNCHANGED <<btn, clock, ticks, serialVars, harnessVars>>

\* loop() with `else if` before the test of button B: B is looked at only
\* when A was not pressed.
LoopBtnBElseIf ==
    /\ pc = "btnB"
    /\ SetUi(IF btn.B /\ ~btn.A THEN PressB(UiState) ELSE UiState)
    /\ pc' = "btnC"
    /\ UNCHANGED <<btn, clock, ticks, serialVars, harnessVars>>

\* loop(): if (M5.BtnB.wasPressed()) { ... }
LoopBtnB ==
    /\ pc = "btnB"
    /\ SetUi(IF btn.B THEN PressB(UiState) ELSE UiState)
    /\ pc' = "btnC"
    /\ UNCHANGED <<btn, clock, ticks, serialVars, harnessVars>>

\* loop(): if (M5.BtnC.wasPressed()) { ... }
LoopBtnC ==
    /\ pc = "btnC"
    /\ SetUi(IF btn.C THEN PressC(UiState) ELSE UiState)
    /\ pc' = "render"
    /\ UNCHANGED <<btn, clock, ticks, serialVars, harnessVars>>

\* loop(): the per-mode work and the delays. millis() returns `clock`; dt is
\* the time that passes until the next iteration reads it, at least the
\* delays of this one, drawn from tickMs.
LoopRenderOn(tickMs) ==
    /\ pc = "render"
    /\ \E dt \in tickMs :
         /\ dt >= LOOP_DELAY_MS
         /\ clock' = U32Add(clock, dt)
         /\ \/ /\ g_mode = MODE_DASHBOARD
               /\ SetUi(RenderDashboard(UiState, g_stats, clock))
            \/ /\ g_mode = MODE_MATRIX
               /\ dt >= MATRIX_DELAY_MS + LOOP_DELAY_MS
               /\ \E di \in InitDraws(UiState), dr \in RespawnDraws(UiState) :
                    SetUi(matrixStep(UiState, di, dr))
            \/ /\ g_mode = MODE_ART
               /\ SetUi(RenderArt(UiState))
    /\ pc' = "serial"
    /\ ticks' = ticks + 1
    /\ UNCHANGED <<btn, serialVars, harnessVars>>

LoopRender == LoopRenderOn(TickMs)

Next == LoopUpdateSerial \/ LoopBtnA \/ LoopBtnB \/ LoopBtnC \/ LoopRender

Spec == Init /\ [][Next]_vars

\* Iterations of loop() explored while the rain runs: enough for the slowest
\* column (started 29 rows above the screen, trail 12) to respawn.
MaxRainTicks == 75

NoEdge == [A |-> FALSE, B |-> FALSE, C |-> FALSE]

\* The rain left to run: button C may be pressed in the first MaxTicks
\* iterations, then no button is touched, no serial input arrives and every
\* iteration takes its two delays and no more.
RainUpdateSerial ==
    LoopUpdateSerialOn(
        IF ticks < MaxTicks THEN {NoEdge, [NoEdge EXCEPT !.C = TRUE]}
        ELSE {NoEdge},
        {<<>>}, MaxRainTicks)

RainRender == LoopRenderOn({MATRIX_DELAY_MS + LOOP_DELAY_MS})

NextMatrix ==
    RainUpdateSerial \/ LoopBtnA \/ LoopBtnB \/ LoopBtnC \/ RainRender

SpecMatrix == Init /\ [][NextMatrix]_vars

\* Iterations of loop() explored around the redraw interval.
MaxGateTicks == 3

\* Milliseconds between two iterations when the redraw interval is
\* examined: the delay alone, exactly the interval, one more.
GateTickMs == {LOOP_DELAY_MS, REDRAW_MS, REDRAW_MS + 1}

\* The redraw gate: at most one button is pressed per iteration, no serial
\* input arrives, and time passes in steps around the interval.
GateUpdateSerial ==
    LoopUpdateSerialOn(
        {NoEdge, [NoEdge EXCEPT !.A = TRUE], [NoEdge EXCEPT !.B = TRUE],
         [NoEdge EXCEPT !.C = TRUE]},
        {<<>>}, MaxGateTicks)

GateRender == LoopRenderOn(GateTickMs)

NextGate ==
    GateUpdateSerial \/ LoopBtnA \/ LoopBtnB \/ LoopBtnC \/ GateRender

SpecGate == Init /\ [][NextGate]_vars

(***************************************************************************)
(* loop() around the wraparound of millis(), about 49.7 days after boot:   *)
(* the firmware has been showing the dashboard of the default record, and  *)
(* an iteration begins between 5 and 205 ms after the last redraw.         *)
(***************************************************************************)
\* Iterations of loop() explored around the wraparound.
MaxWrapTicks == 3

\* millis() at the start of the first iteration: 100 and 0 (just wrapped),
\* 2^32 - 1 and 2^32 - 300 (about to wrap).
WrapClocks ==
    {U32Sub(U32(REDRAW_MS \div 2), U32(k)) :
        k \in {0, REDRAW_MS \div 2, REDRAW_MS \div 2 + 1, 2 * REDRAW_MS}}

\* Time since the last redraw at the start of the first iteration.
WrapSince ==
    {LOOP_DELAY_MS, REDRAW_MS \div 2 + LOOP_DELAY_MS, REDRAW_MS + LOOP_DELAY_MS}

WrapTickMs == {LOOP_DELAY_MS, REDRAW_MS \div 2, REDRAW_MS + 1}

InitWrap ==
    /\ g_stats = DefaultStats
    /\ g_lineBuffer = <<>>
    /\ g_mode = MODE_DASHBOARD
    /\ g_currentArtIndex = 0
    /\ g_matrixInitialized = FALSE
    /\ g_matrixDropY = [c \in MatrixCols |-> 0]
    /\ g_matrixTrailLen = [c \in MatrixCols |-> 0]
    /\ g_headerIpInitialized = TRUE
    /\ g_prev = HeaderValues(DefaultStats)
    /\ clock \in WrapClocks
    /\ \E d \in WrapSince : g_lastRedrawMs = U32Sub(clock, U32(d))
    /\ g_animPhase \in {0, UINT8 - 1}
    /\ lcd = [StaticFrameLcd EXCEPT !.header = <<HeaderBlock(DefaultStats)>>,
                                    !.dyn = <<DynRows(DefaultStats)>>]
    /\ pc = "serial"
    /\ btn = NoEdge
    /\ ticks = 0
    /\ drawLog = <<>>
    /\ artShown = <<>>
    /\ nlEvents = <<>>
    /\ rxCount = 0
    /\ bars = NoBars
    /\ parsedLog = <<>>
    /\ callLine = <<>>
    /\ callBase = DefaultStats
    /\ calls = 0
    /\ wire = <<>>

WrapUpdateSerial ==
    LoopUpdateSerialOn(
        {NoEdge, [NoEdge EXCEPT !.A = TRUE], [NoEdge EXCEPT !.B = TRUE]},
        {<<>>}, MaxWrapTicks)

WrapRender == LoopRenderOn(WrapTickMs)

NextWrap ==
    WrapUpdateSerial \/ LoopBtnA \/ LoopBtnB \/ LoopBtnC \/ WrapRender

SpecWrap == InitWrap /\ [][NextWrap]_vars

(***************************************************************************)
(* loop() when a line reaches the port in two pieces, the first of which   *)
(* ends inside the second token.                                           *)
(***************************************************************************)
\* 'user=pi;ho'
TL_split_head ==
    <<"u", "s", "e", "r", "=", "p", "i", ";", "h", "o">>
\* 'stname=deck'
TL_split_tail ==
    <<"s", "t", "n", "a", "m", "e", "=", "d", "e", "c", "k">>
\* 'user=pi;hostname=deck'
TL_split_line ==
    <<"u", "s", "e", "r", "=", "p", "i", ";", "h", "o", "s", "t", "n", "a", "m", "e", "=", "d", "e", "c", "k">>

\* Iterations of loop() explored when lines arrive in pieces.
MaxSplitTicks == 3

SplitArrivals ==
    {<<>>, TL_split_head, TL_split_tail \o <<LF>>, TL_tail \o <<LF>>}

SplitUpdateSerial ==
    LoopUpdateSerialOn({NoEdge, [NoEdge EXCEPT !.A = TRUE]}, SplitArrivals,
                       MaxSplitTicks)

SplitRender == LoopRenderOn({REDRAW_MS + 1})

NextSplit ==
    SplitUpdateSerial \/ LoopBtnA \/ LoopBtnB \/ LoopBtnC \/ SplitRender

SpecSplit == Init /\ [][NextSplit]_vars

(***************************************************************************)
(* loop() fed by a host that sends a finite stream of newline-terminated   *)
(* lines in pieces: while pieces are outstanding every iteration finds the *)
(* next one or the next two on the port.  callLine holds the whole stream. *)
(***************************************************************************)
\* 'user=pi;ho' | 'stname=deck\n\ncpu=' | '7\n'
LS_pieces ==
    <<TL_split_head,
      TL_split_tail \o <<LF, LF>> \o SubSeq(TL_tail, 1, 4),
      <<"7", LF>>>>

\* ' \ncpu=5\r\nhostname=nas;cpu=50\n'
LS_burst ==
    <<(<<" ", LF>> \o TL_tail \o <<CR, LF>> \o TL_host2 \o <<LF>>)>>

\* 'x' | '\n' | 'cpu=5' | '\n'
LS_bytes == <<<<"x">>, <<LF>>, TL_tail, <<LF>>>>

LiveStreams == {LS_pieces, LS_burst, LS_bytes}

\* Iterations of loop() explored while a stream arrives.
MaxLiveTicks == 5

RECURSIVE Flatten(_)
Flatten(pieces) ==
    IF pieces = <<>> THEN <<>> ELSE Head(pieces) \o Flatten(Tail(pieces))

\* The lines of the newline events that were handed to parseStatsLine.
RECURSIVE ParsedLines(_)
ParsedLines(events) ==
    IF events = <<>> THEN <<>>
    ELSE (IF Head(events).parsed THEN <<Head(events).line>> ELSE <<>>)
             \o ParsedLines(Tail(events))

InitLive ==
    /\ InitGlobals
    /\ g_stats = DefaultStats
    /\ wire \in LiveStreams
    /\ callLine = Flatten(wire)
    /\ callBase = DefaultStats
    /\ calls = 0

\* loop(): M5.update() and processSerialInput(), with the pieces that have
\* reached the port.
LiveUpdateSerial ==
    /\ pc = "serial"
    /\ ticks < MaxLiveTicks
    /\ \E e \in {NoEdge, [NoEdge EXCEPT !.A = TRUE],
                  [NoEdge EXCEPT !.B = TRUE], [NoEdge EXCEPT !.C = TRUE]} :
            btn' = e
    /\ \E k \in (IF wire = <<>> THEN {0}
                  ELSE {1, IF Len(wire) > 1 THEN 2 ELSE 1}) :
            /\ processSerialInput(Flatten(SubSeq(wire, 1, k)))
            /\ wire' = SubSeq(wire, k + 1, Len(wire))
    /\ parsedLog' = parsedLog \o ParsedLines(nlEvents')
    /\ drawLog' = <<>>
    /\ pc' = "btnA"
    /\ UNCHANGED <<g_mode, g_currentArtIndex, g_matrixInitialized,
                   g_matrixDropY, g_matrixTrailLen, g_headerIpInitialized,
                   g_prev, g_lastRedrawMs, g_animPhase, lcd, artShown>>
    /\ UNCHANGED <<clock, ticks, callLine, callBase, calls, bars>>

LiveRender == LoopRenderOn({REDRAW_MS + 1})

NextLive ==
    LiveUpdateSerial \/ LoopBtnA \/ LoopBtnB \/ LoopBtnC \/ LiveRender

\* The part of loop() that follows each part.
NextPart ==
    [p \in {"serial", "btnA", "btnB", "btnC", "render"} |->
        CASE p = "serial" -> "btnA"
          [] p = "btnA" -> "btnB"
          [] p = "btnB" -> "btnC"
          [] p = "btnC" -> "render"
          [] p = "render" -> "serial"]

\* loop() gets on from one part to the next, and is called again when it
\* returns, for as long as iterations are explored.
LoopAdvances ==
    /\ pc = "serial" => ticks < MaxLiveTicks
    /\ pc' = NextPart[pc]
    /\ ticks' = IF pc = "render" THEN ticks + 1 ELSE ticks

\* The device keeps running: loop() never stops advancing.
SpecLive == InitLive /\ [][NextLive]_vars /\ WF_<<pc, ticks>>(LoopAdvances)

\* One call of processSerialInput with some bytes of `arrivals` available.
SerialCall(arrivals) ==
    \E bytes \in arrivals :
        /\ MayArrive(bytes)
        /\ processSerialInput(bytes)
        /\ UNCHANGED <<uiVars, loopVars, harnessVars>>

NextSerial == SerialCall(Arrivals)

SpecSerial == Init /\ [][NextSerial]_vars

NextFlood == SerialCall(FloodArrivals)

SpecFlood == Init /\ [][NextFlood]_vars

\* The parser on its own: a line and a prior record are drawn, and
\* parseStatsLine is applied to them repeatedly.
InitParse ==
    /\ InitGlobals
    /\ callLine \in ParseLines
    /\ callBase \in BaseRecords
    /\ g_stats = callBase
    /\ calls = 0
    /\ wire = <<>>

ParseCall ==
    /\ calls < MaxCalls
    /\ g_stats' = parseStatsLine(callLine, g_stats)
    /\ calls' = calls + 1
    /\ UNCHANGED <<g_lineBuffer, nlEvents, rxCount, callLine, callBase, bars>>
    /\ UNCHANGED liveVars
    /\ UNCHANGED <<uiVars, loopVars>>

NextParse == ParseCall

SpecParse == InitParse /\ [][NextParse]_vars

(***************************************************************************)
(* The bars on their own: a line is drawn and parsed into the default      *)
(* record, and the two bars of drawDynamicStats are drawn from the record. *)
(***************************************************************************)
\* 'cpu=150;ram_percent=-5'
BL_over_under ==
    <<"c", "p", "u", "=", "1", "5", "0", ";", "r", "a", "m", "_", "p", "e", "r", "c", "e", "n", "t", "=", "-", "5">>
\* 'cpu=100;ram_percent=0'
BL_full_empty ==
    <<"c", "p", "u", "=", "1", "0", "0", ";", "r", "a", "m", "_", "p", "e", "r", "c", "e", "n", "t", "=", "0">>
\* 'cpu=nan;ram_percent=50'
BL_nan ==
    <<"c", "p", "u", "=", "n", "a", "n", ";", "r", "a", "m", "_", "p", "e", "r", "c", "e", "n", "t", "=", "5", "0">>
\* 'cpu=33.3;ram_percent=99.9'
BL_thirds ==
    <<"c", "p", "u", "=", "3", "3", ".", "3", ";", "r", "a", "m", "_", "p", "e", "r", "c", "e", "n", "t", "=", "9", "9", ".", "9">>
\* 'cpu=0.7;ram_percent=0.4'
BL_small ==
    <<"c", "p", "u", "=", "0", ".", "7", ";", "r", "a", "m", "_", "p", "e", "r", "c", "e", "n", "t", "=", "0", ".", "4">>
\* 'cpu=inf;ram_percent=-INF'
BL_inf ==
    <<"c", "p", "u", "=", "i", "n", "f", ";", "r", "a", "m", "_", "p", "e", "r", "c", "e", "n", "t", "=", "-", "I", "N", "F">>
\* 'cpu=7;ram_percent=100.1'
BL_edge ==
    <<"c", "p", "u", "=", "7", ";", "r", "a", "m", "_", "p", "e", "r", "c", "e", "n", "t", "=", "1", "0", "0", ".", "1">>
\* 'cpu=12.5;ram_percent=-0.1'
BL_mixed ==
    <<"c", "p", "u", "=", "1", "2", ".", "5", ";", "r", "a", "m", "_", "p", "e", "r", "c", "e", "n", "t", "=", "-", "0", ".", "1">>

\* Lines offered to the bars.
BarLines ==
    {BL_over_under, BL_full_empty, BL_nan, BL_thirds, BL_small, BL_inf,
     BL_edge, BL_mixed}

\* Number of redraws of the two-row firmware that are followed.
MaxBarPhase == 4

InitBar ==
    /\ InitGlobals
    /\ callLine \in BarLines
    /\ callBase = DefaultStats
    /\ g_stats = callBase
    /\ calls = 0
    /\ wire = <<>>

\* The two drawBar calls of drawDynamicStats (three-mode firmware).
BarDraw ==
    /\ \E nc \in IntOfNaN, nr \in IntOfNaN :
            bars' = [cpu |-> drawBar(cpuBarW, g_stats.cpu, nc),
                     ram |-> drawBar(ramBarW, g_stats.ramPercent, nr)]
    /\ UNCHANGED <<serialVars, callLine, callBase, calls, uiVars, loopVars>>
    /\ UNCHANGED liveVars

\* g_animPhase++ and the two drawBar calls of drawDynamicStats (two-row
\* firmware).
BarDrawScanline ==
    /\ g_animPhase < MaxBarPhase
    /\ g_animPhase' = (g_animPhase + 1) % UINT8
    /\ \E nc \in IntOfNaN, nr \in IntOfNaN :
            bars' = [cpu |-> drawBarScanline(barW, g_stats.cpu, nc,
                                             g_animPhase'),
                     ram |-> drawBarScanline(barW, g_stats.ramPercent, nr,
                                             g_animPhase')]
    /\ UNCHANGED <<serialVars, callLine, callBase, calls, loopVars, liveVars>>
    /\ UNCHANGED <<g_mode, g_currentArtIndex, g_matrixInitialized,
                   g_matrixDropY, g_matrixTrailLen, g_headerIpInitialized,
                   g_prev, g_lastRedrawMs, lcd, drawLog, artShown>>

NextBar == ParseCall \/ BarDraw \/ BarDrawScanline

SpecBar == InitBar /\ [][NextBar]_vars

(***************************************************************************)
(* The wire format of spec section 6, stated independently of the parser:  *)
(* a line is split at every ';', a segment is a valid token when its       *)
(* trimmed text has an '=' that is not its first character.                *)
(***************************************************************************)
MinOf(S) == CHOOSE i \in S : \A j \in S : i <= j

MaxOf(S) == CHOOSE i \in S : \A j \in S : j <= i

RECURSIVE RefSplit(_)
RefSplit(s) ==
    LET at == {i \in 1..Len(s) : s[i] = ";"}
    IN  IF at = {} THEN <<s>>
        ELSE <<SubSeq(s, 1, MinOf(at) - 1)>>
                 \o RefSplit(SubSeq(s, MinOf(at) + 1, Len(s)))

RefEq(t) ==
    LET at == {i \in 1..Len(t) : t[i] = "="}
    IN  IF at = {} THEN 0 ELSE MinOf(at)

RefBlank(seg) == Trim(seg) = <<>>

RefValid(seg) == RefEq(Trim(seg)) > 1

RefKey(seg) == Trim(SubSeq(Trim(seg), 1, RefEq(Trim(seg)) - 1))

RefVal(seg) == Trim(SubSeq(Trim(seg), RefEq(Trim(seg)) + 1, Len(Trim(seg))))

\* The key of each field of the record.
KeyName ==
    [time |-> K_time, user |-> K_user, hostname |-> K_hostname, cpu |-> K_cpu,
     ramUsedMb |-> K_ram_used_mb, ramTotalMb |-> K_ram_total_mb,
     ramPercent |-> K_ram_percent, localIp |-> K_local_ip,
     publicIp |-> K_public_ip, cpuTempC |-> K_cpu_temp_c,
     netUpMbps |-> K_net_up_mbps, netDownMbps |-> K_net_down_mbps]

\* The key of every segment of `line`, <<>> for a segment that is no valid
\* token.
RefKeys(line) ==
    LET segs == RefSplit(line)
    IN  [i \in 1..Len(segs) |->
            IF RefValid(segs[i]) THEN RefKey(segs[i]) ELSE <<>>]

\* The positions of the valid tokens of `line` whose key is that of field f.
RefNamedAt(line, f) ==
    LET keys == RefKeys(line)
    IN  {i \in 1..Len(keys) : keys[i] = KeyName[f]}

RefNamed(line) ==
    LET keys == RefKeys(line)
    IN  {f \in Fields : \E i \in 1..Len(keys) : keys[i] = KeyName[f]}

RefConvert(f, v) ==
    IF f \in TextFields THEN v
    ELSE IF f \in IntFields THEN toInt(v)
    ELSE toFloat(v)

\* The text the last token naming f carries.
RefLastText(line, f) == RefVal(RefSplit(line)[MaxOf(RefNamedAt(line, f))])

\* The value the last token naming f gives it.
RefValue(line, f) == RefConvert(f, RefLastText(line, f))

\* The record after a line: named fields take the line's value, the others
\* keep the value of r.
RefMergeLine(line, r) ==
    LET named == RefNamed(line)
    IN  [f \in Fields |-> IF f \in named THEN RefValue(line, f) ELSE r[f]]

RECURSIVE RefMergeEvents(_, _, _)
RefMergeEvents(events, i, r) ==
    IF i > Len(events) THEN r
    ELSE RefMergeEvents(events, i + 1,
                        IF events[i].parsed THEN RefMergeLine(events[i].line, r)
                        ELSE r)

\* Every non-blank segment is a valid token with a recognised key.
RefWellFormed(line) ==
    \A i \in 1..Len(RefSplit(line)) :
        \/ RefBlank(RefSplit(line)[i])
        \/ /\ RefValid(RefSplit(line)[i])
           /\ \E f \in Fields : RefKey(RefSplit(line)[i]) = KeyName[f]

RECURSIVE RefJoin(_, _)
RefJoin(segs, i) ==
    IF i > Len(segs) THEN <<>>
    ELSE IF i = Len(segs) THEN segs[i]
    ELSE segs[i] \o <<";">> \o RefJoin(segs, i + 1)

\* The line with its invalid tokens (no '=', or an empty key) removed.
RefDropInvalid(line) ==
    RefJoin(SelectSeq(RefSplit(line),
                      LAMBDA seg : RefBlank(seg) \/ RefValid(seg)), 1)

\* A value with no numeric prefix: after an optional sign there is neither a
\* digit nor, for a float, a '.' followed by a digit.
RefNonNumeric(f, v) ==
    LET i == IF Len(v) > 0 /\ v[1] \in {"+", "-"} THEN 2 ELSE 1
    IN  /\ ~(i <= Len(v) /\ IsDigit(v[i]))
        /\ ~(/\ f \in FloatFields
             /\ i + 1 <= Len(v)
             /\ v[i] = "."
             /\ IsDigit(v[i + 1]))

NumericZero(f) == IF f \in IntFields THEN 0 ELSE FloatZero

(***************************************************************************)
(* Claims.                                                                 *)
(***************************************************************************)

\* C1: for every sequence of input bytes fed to processSerialInput, the line
\* buffer holds at most 512 bytes in every reachable state.
C1_BufferBounded == Len(g_lineBuffer) <= LINE_MAX

\* C1 witness: the buffer is full, 512 bytes are held.
C1_Witness == Len(g_lineBuffer) = LINE_MAX

\* C2: a call of processSerialInput leaves every field that no valid token of
\* its completed lines names at its previous value, and gives every named
\* field the value of the most recent token naming it; so over any sequence
\* of lines each field holds the value of the most recent line that named it.
C2_MergeKeepsUnnamed ==
    [][g_stats' = RefMergeEvents(nlEvents', 1, g_stats)]_vars

\* C2 witness: "ram_percent=25.9" has just been merged and the cpu and
\* ram_used_mb values of the earlier "cpu=12.3;ram_used_mb=1024" survive.
C2_Witness ==
    /\ Len(nlEvents) = 1
    /\ nlEvents[1].parsed
    /\ nlEvents[1].line = TL_ram_percent
    /\ g_stats.cpu = Dec(123, 1)
    /\ g_stats.ramUsedMb = 1024
    /\ g_stats.ramPercent = Dec(259, 1)

\* C3 (as claimed): when the newline of a line of more than 512 bytes is
\* consumed, no line is handed to the parser, the record is unchanged and the
\* buffer is empty afterwards.
C3_OverlongLineDropped ==
    [][(/\ Len(nlEvents') = 1
        /\ nlEvents'[1].raw > LINE_MAX)
       => (/\ ~nlEvents'[1].parsed
           /\ g_stats' = g_stats
           /\ g_lineBuffer' = <<>>)]_vars

\* C4: every line handed to parseStatsLine is non-empty and has no leading
\* or trailing whitespace; a newline consumed while the buffer is empty or
\* holds only whitespace emits nothing, and a call that emits nothing leaves
\* the record unchanged.
C4_EmittedLinesTrimmed ==
    /\ [](\A i \in 1..Len(nlEvents) :
            /\ nlEvents[i].parsed =>
                 /\ Len(nlEvents[i].line) > 0
                 /\ ~IsSpace(nlEvents[i].line[1])
                 /\ ~IsSpace(nlEvents[i].line[Len(nlEvents[i].line)])
            /\ (\A k \in 1..Len(nlEvents[i].buf) : IsSpace(nlEvents[i].buf[k]))
                 => ~nlEvents[i].parsed)
    /\ [][(\A i \in 1..Len(nlEvents') : ~nlEvents'[i].parsed)
            => g_stats' = g_stats]_vars

\* C4 witness: a buffer with surrounding whitespace was terminated and its
\* trimmed text was handed to the parser.
C4_Witness ==
    \E i \in 1..Len(nlEvents) :
        /\ nlEvents[i].parsed
        /\ IsSpace(nlEvents[i].buf[1])
        /\ IsSpace(nlEvents[i].buf[Len(nlEvents[i].buf)])
        /\ nlEvents[i].line = TL_tail

\* C5: a token with no '=' or with an empty key is skipped without stopping
\* or altering the other tokens: the record after a line equals the record
\* after the same line with its invalid tokens removed, and
\* "cpu=10;=5;ram_percent=20" merged into the default record sets cpu = 10
\* and ram_percent = 20.
C5_InvalidTokenSkipped ==
    /\ calls = 1 =>
         g_stats = parseStatsLine(RefDropInvalid(callLine), callBase)
    /\ (calls = 1 /\ callLine \in {TL_empty_key, TL_no_equals}) =>
         /\ g_stats.cpu = Dec(10, 0)
         /\ g_stats.ramPercent = Dec(20, 0)

\* C5 witness: "cpu=10;=5;ram_percent=20" was parsed into a record that held
\* other values, and both sibling tokens took effect.
C5_Witness ==
    /\ calls = 1
    /\ callLine = TL_empty_key
    /\ RefDropInvalid(callLine) = TL_clean
    /\ callBase.cpu = Dec(123, 1)
    /\ g_stats.cpu = Dec(10, 0)
    /\ g_stats.ramPercent = Dec(20, 0)

C7_MergeExactAndIdempotent ==
    /\ []((calls >= 1 /\ callBase = DefaultStats /\ RefWellFormed(callLine))
            => g_stats = RefMergeLine(callLine, DefaultStats))
    /\ [][calls >= 1 => g_stats' = g_stats]_vars

\* C7 witness: "cpu=12.3;ram_used_mb=1024" was merged twice into the default
\* record.
C7_Witness ==
    /\ calls = 2
    /\ callBase = DefaultStats
    /\ callLine = TL_cpu_ram
    /\ RefWellFormed(callLine)
    /\ g_stats.cpu = Dec(123, 1)
    /\ g_stats.ramUsedMb = 1024
    /\ g_stats.time = <<>>

\* C8: the button B handler, run on an edge while the mode is not ASCII art,
\* sets the mode to ASCII art and the cursor to 0; run while the mode is
\* ASCII art it keeps the mode and sets the cursor to (cursor + 1) mod the
\* catalog size; in both cases the screen is cleared and the selected
\* artwork is drawn by that same handler.
C8_EdgeBSelectsAndRenders ==
    [][(pc = "btnB" /\ btn.B)
       => (/\ g_mode' = MODE_ART
           /\ g_currentArtIndex' =
                  IF g_mode # MODE_ART THEN 0
                  ELSE (g_currentArtIndex + 1) % g_numAsciiArts
           /\ lcd' = [BlankLcd EXCEPT !.art = g_currentArtIndex']
           /\ drawLog' = Append(drawLog, <<"art", g_currentArtIndex'>>))]_vars

\* C8 witness: button B was handled in ASCII art mode, the cursor advanced
\* to the second artwork and that artwork is on screen.
C8_Witness ==
    /\ pc = "btnC"
    /\ btn.B
    /\ ~btn.A
    /\ g_mode = MODE_ART
    /\ g_currentArtIndex = 1
    /\ lcd.art = 1
    /\ drawLog = <<<<"art", 1>>>>

\* C9: the button A handler, run on an edge in any mode, sets the mode to
\* dashboard, redraws the static frame and clears g_headerIpInitialized; the
\* flag becomes set again only in a step that draws the header/IP block, and
\* a dashboard redraw that finds the flag clear draws the block from the
\* current record whether or not the cached values differ.
C9_EdgeAInvalidatesHeaderCache ==
    /\ [][(pc = "btnA" /\ btn.A)
          => (/\ g_mode' = MODE_DASHBOARD
              /\ lcd' = StaticFrameLcd
              /\ drawLog' = Append(drawLog, <<"frame">>)
              /\ ~g_headerIpInitialized')]_vars
    /\ [][(~g_headerIpInitialized /\ g_headerIpInitialized')
          => (/\ pc = "render"
              /\ g_mode = MODE_DASHBOARD
              /\ lcd'.header = <<HeaderBlock(g_stats)>>)]_vars
    /\ [][(/\ pc = "render"
           /\ g_mode = MODE_DASHBOARD
           /\ ~g_headerIpInitialized
           /\ g_lastRedrawMs' # g_lastRedrawMs)
          => (/\ lcd'.header = <<HeaderBlock(g_stats)>>
              /\ drawLog' = drawLog \o <<<<"header">>, <<"stats">>>>
              /\ g_headerIpInitialized')]_vars

\* C9 witness: the second iteration handled button A and then redrew the
\* dashboard, header/IP block included, although no line was ever received
\* and the first iteration had already drawn the same values.
C9_Witness ==
    /\ pc = "serial"
    /\ ticks = 2
    /\ g_animPhase = 2
    /\ nlEvents = <<>>
    /\ btn.A
    /\ g_prev = HeaderValues(g_stats)
    /\ drawLog = <<<<"frame">>, <<"header">>, <<"stats">>>>
    /\ lcd.header = <<HeaderBlock(g_stats)>>

\* The rows a column head may be at after initMatrixMode and one step.
C10_ReseededRows == (2 - MatrixRows)..1

\* C10: the button C handler, run on an edge in any mode, sets the mode to
\* matrix rain and clears g_matrixInitialized; the flag becomes set again
\* only in a matrix step, a matrix step that finds it clear clears the
\* screen and reseeds every column before advancing it, and at the end of
\* every iteration of loop() that ends in matrix rain mode the flag is set.
C10_EdgeCReseedsMatrix ==
    /\ [][(pc = "btnC" /\ btn.C)
          => (/\ g_mode' = MODE_MATRIX
              /\ ~g_matrixInitialized')]_vars
    /\ [][(~g_matrixInitialized /\ g_matrixInitialized')
          => (pc = "render" /\ g_mode = MODE_MATRIX)]_vars
    /\ [][(pc = "render" /\ g_mode = MODE_MATRIX /\ ~g_matrixInitialized)
          => (/\ g_matrixInitialized'
              /\ drawLog' = drawLog \o <<<<"matrixInit">>, <<"matrixStep">>>>
              /\ [lcd' EXCEPT !.rain = BlankLcd.rain] = BlankLcd
              /\ \A c \in MatrixCols :
                   /\ lcd'.rain[c] \subseteq {0}
                   /\ g_matrixDropY'[c] \in C10_ReseededRows
                   /\ g_matrixTrailLen'[c] \in
                        MATRIX_TRAIL_MIN_ROWS..MATRIX_TRAIL_MAX_ROWS)]_vars
    /\ []((pc = "serial" /\ ticks > 0 /\ g_mode = MODE_MATRIX)
            => g_matrixInitialized)

\* C10 witness: the third iteration handled button C alone and ended in
\* matrix rain mode with the columns reseeded and advanced once: column 0
\* drew row 0 and is at row 1, column 1 drew the last row and is one row
\* below its start.
C10_Witness ==
    /\ pc = "serial"
    /\ ticks = 3
    /\ btn.C
    /\ ~btn.A
    /\ ~btn.B
    /\ g_mode = MODE_MATRIX
    /\ g_matrixInitialized
    /\ drawLog = <<<<"matrixInit">>, <<"matrixStep">>>>
    /\ g_matrixDropY[0] = 1
    /\ g_matrixTrailLen[0] = MATRIX_TRAIL_MIN_ROWS
    /\ g_matrixDropY[1] = 2 - MatrixRows
    /\ g_matrixTrailLen[1] = MATRIX_TRAIL_MAX_ROWS

\* The step handles an edge: the handler of a latched button runs.
EdgeStep ==
    \/ pc = "btnA" /\ btn.A
    \/ pc = "btnB" /\ btn.B
    \/ pc = "btnC" /\ btn.C

\* C11: while the mode is ASCII art the mode changes only in the handler of
\* an edge A or an edge C; a step of loop() that handles no edge, whether it
\* consumes serial input or lets time pass, changes neither the mode nor
\* the cursor nor the screen and draws nothing.
C11_ArtModeIsStatic ==
    /\ [][(g_mode = MODE_ART /\ g_mode' # MODE_ART)
          => (pc = "btnA" /\ btn.A) \/ (pc = "btnC" /\ btn.C)]_vars
    /\ [][(g_mode = MODE_ART /\ ~EdgeStep)
          => (/\ g_mode' = g_mode
              /\ g_currentArtIndex' = g_currentArtIndex
              /\ lcd' = lcd
              /\ drawLog' = IF pc = "serial" THEN <<>> ELSE drawLog)]_vars

\* C11 witness: an iteration in ASCII art mode with no edge, in which a
\* line arrived and 201 ms passed, ended with the artwork still on screen
\* and nothing drawn.
C11_Witness ==
    /\ pc = "serial"
    /\ ticks = 2
    /\ btn = [A |-> FALSE, B |-> FALSE, C |-> FALSE]
    /\ g_mode = MODE_ART
    /\ Len(nlEvents) = 1
    /\ g_stats.user = <<"p", "i">>
    /\ clock = U32(BOOT_MS + 201 + 201)
    /\ lcd = [BlankLcd EXCEPT !.art = 0]
    /\ drawLog = <<>>

\* C12: the cursor is always inside the catalog; in ASCII art mode the
\* artworks drawn since the mode was entered start at the first entry, the
\* first (catalog size) of them are pairwise different, so every entry is
\* visited once, and the one drawn after (catalog size) further edges B is
\* the first entry again; the cursor is the artwork drawn last.
C12_CursorCycles ==
    /\ g_currentArtIndex \in 0..(g_numAsciiArts - 1)
    /\ g_mode = MODE_ART =>
         /\ Len(artShown) >= 1
         /\ artShown[1] = 0
         /\ artShown[Len(artShown)] = g_currentArtIndex
         /\ \A i, j \in 1..Len(artShown) :
              (i < j /\ j <= g_numAsciiArts) => artShown[i] # artShown[j]
         /\ Len(artShown) >= g_numAsciiArts =>
              {artShown[i] : i \in 1..g_numAsciiArts} = 0..(g_numAsciiArts - 1)
         /\ Len(artShown) > g_numAsciiArts =>
              artShown[g_numAsciiArts + 1] = 0

\* C12 witness: ASCII art mode was entered and edge B applied twice more;
\* both artworks were shown and the first one is on screen again.
C12_Witness ==
    /\ g_mode = MODE_ART
    /\ artShown = <<0, 1, 0>>
    /\ g_currentArtIndex = 0
    /\ lcd.art = 0

\* The step is a matrixStep() call that finds the rain initialized.
RainStep == pc = "render" /\ g_mode = MODE_MATRIX /\ g_matrixInitialized

\* Column c is off screen with its whole trail once advanced.
OffScreenNext(c) ==
    g_matrixDropY[c] + 1 >= MatrixRows + g_matrixTrailLen[c]

SeedRows == (1 - MatrixRows)..0

TrailRange == MATRIX_TRAIL_MIN_ROWS..MATRIX_TRAIL_MAX_ROWS

\* C13: on a matrixStep every column that does not respawn has its head row
\* increased by exactly one and keeps its trail length; a trail length
\* changes only in a matrixStep that initializes the rain or respawns that
\* column.
C13_HeadAdvancesByOne ==
    /\ [][RainStep =>
            \A c \in MatrixCols :
                ~OffScreenNext(c) =>
                    /\ g_matrixDropY'[c] = g_matrixDropY[c] + 1
                    /\ g_matrixTrailLen'[c] = g_matrixTrailLen[c]]_vars
    /\ [][\A c \in MatrixCols :
            g_matrixTrailLen'[c] # g_matrixTrailLen[c] =>
                /\ pc = "render"
                /\ g_mode = MODE_MATRIX
                /\ ~g_matrixInitialized \/ OffScreenNext(c)]_vars

\* C13 witness: column 0, seeded at row 0 with trail 4 and advanced by the
\* initializing step, has been advanced 19 more times and kept its trail.
C13_Witness ==
    /\ pc = "serial"
    /\ g_mode = MODE_MATRIX
    /\ g_matrixInitialized
    /\ g_matrixDropY[0] = 20
    /\ g_matrixTrailLen[0] = MATRIX_TRAIL_MIN_ROWS
    /\ drawLog = <<<<"matrixStep">>>>

\* C14: there are 30 rows; initMatrixMode leaves every head in -29..0 and
\* every trail length in 4..12, and so does a respawn for its column; once
\* the rain is initialized every trail length is in 4..12 and every head is
\* above row rows + trail length.
C14_SeedsInRange ==
    /\ [](MatrixRows = 30)
    /\ [](\A d \in Draws : \A c \in MatrixCols :
            /\ initMatrixMode(UiState, d).dropY[c] \in SeedRows
            /\ initMatrixMode(UiState, d).trail[c] \in TrailRange)
    /\ [][RainStep =>
            \A c \in MatrixCols :
                OffScreenNext(c) =>
                    /\ g_matrixDropY'[c] \in SeedRows
                    /\ g_matrixTrailLen'[c] \in TrailRange]_vars
    /\ [](g_matrixInitialized =>
            \A c \in MatrixCols :
                /\ g_matrixTrailLen[c] \in TrailRange
                /\ g_matrixDropY[c] < MatrixRows + g_matrixTrailLen[c])

\* C14 witness: column 0 has just respawned at the highest start row, 29
\* rows above the screen, with the longest trail (the initializing step
\* leaves a head at row -28 at least).
C14_Witness ==
    /\ pc = "serial"
    /\ g_mode = MODE_MATRIX
    /\ g_matrixInitialized
    /\ g_matrixDropY[0] = 1 - MatrixRows
    /\ g_matrixTrailLen[0] = MATRIX_TRAIL_MAX_ROWS

\* C15: in a matrixStep a column respawns, that is, its head is not simply
\* advanced, exactly when the advanced head is at or below row
\* rows + trail length; the other columns of that step that are not off
\* screen themselves are advanced by one and keep their trail.
C15_RespawnExactlyOffScreen ==
    [][RainStep =>
        \A c \in MatrixCols :
            /\ (g_matrixDropY'[c] # g_matrixDropY[c] + 1) <=> OffScreenNext(c)
            /\ OffScreenNext(c) =>
                 \A d \in MatrixCols \ {c} :
                     ~OffScreenNext(d) =>
                         /\ g_matrixDropY'[d] = g_matrixDropY[d] + 1
                         /\ g_matrixTrailLen'[d] = g_matrixTrailLen[d]]_vars

\* C15 witness: column 0 has just respawned at row 0 with the shortest
\* trail (a state only a respawn produces) while column 1, seeded 29 rows
\* above the screen with trail 12, is in the middle of its fall.
C15_Witness ==
    /\ pc = "serial"
    /\ g_mode = MODE_MATRIX
    /\ g_matrixInitialized
    /\ g_matrixDropY[0] = 0
    /\ g_matrixTrailLen[0] = MATRIX_TRAIL_MIN_ROWS
    /\ g_matrixDropY[1] \in 1..(MatrixRows - 1)
    /\ g_matrixTrailLen[1] = MATRIX_TRAIL_MAX_ROWS

\* The step calls drawDynamicStats: a dashboard redraw.
RedrawStep ==
    /\ pc = "render"
    /\ drawLog' # drawLog
    /\ drawLog'[Len(drawLog')] = <<"stats">>

\* millis() - g_lastRedrawMs is at least n, for an n below 2^16.
ElapsedAtLeast(n) ==
    \/ U32Sub(clock, g_lastRedrawMs).hi > 0
    \/ U32Sub(clock, g_lastRedrawMs).lo >= n

\* C16: a dashboard redraw happens only in dashboard mode and only when at
\* least 200 ms have passed since the last one; it adds exactly one to the
\* animation phase counter (a uint8_t) and records the time; the counter and the time
\* of the last redraw change in no other step, and in matrix rain and
\* ASCII art mode nothing of the dashboard is drawn.
C16_RedrawGated ==
    /\ [][RedrawStep =>
            /\ g_mode = MODE_DASHBOARD
            /\ ElapsedAtLeast(REDRAW_MS)
            /\ g_animPhase' = (g_animPhase + 1) % UINT8
            /\ g_lastRedrawMs' = clock]_vars
    /\ [][(g_animPhase' # g_animPhase \/ g_lastRedrawMs' # g_lastRedrawMs)
            => RedrawStep]_vars
    /\ [][(pc = "render" /\ g_mode # MODE_DASHBOARD) =>
            /\ ~RedrawStep
            /\ \A i \in 1..Len(drawLog') :
                 drawLog'[i] \notin {<<"stats">>, <<"header">>}]_vars

\* C16 witness: three iterations in dashboard mode 200 ms apart; the first
\* redrew at 500 ms, the second, exactly 200 ms later, did not, and the
\* third redrew at 900 ms without touching the header: two redraws.
C16_Witness ==
    /\ pc = "serial"
    /\ ticks = 3
    /\ g_mode = MODE_DASHBOARD
    /\ g_animPhase = 2
    /\ g_lastRedrawMs = U32(BOOT_MS + REDRAW_MS + REDRAW_MS)
    /\ drawLog = <<<<"stats">>>>

HeaderFields == {"user", "hostname", "localIp", "publicIp"}

\* The record with field f replaced by a text it does not hold.
OtherText(stats, f) ==
    [stats EXCEPT ![f] = IF @ = <<"z">> THEN <<"y">> ELSE <<"z">>]

\* C17: a dashboard redraw draws the header/IP block exactly when the cache
\* is uninitialized or one of user, hostname, local IP, public IP differs
\* from its cached copy; after the redraw the cache is initialized and holds
\* the record's values, and a block that is not redrawn stays as it was.
\* With an initialized cache that equals the record, a change of any single
\* one of the four fields makes drawHeaderAndIpIfNeeded draw, and no change
\* makes it draw nothing.
C17_HeaderDrawnIffChanged ==
    /\ [][RedrawStep =>
            /\ IF ~g_headerIpInitialized \/ g_prev # HeaderValues(g_stats)
               THEN /\ drawLog' = drawLog \o <<<<"header">>, <<"stats">>>>
                    /\ lcd'.header = <<HeaderBlock(g_stats)>>
               ELSE /\ drawLog' = Append(drawLog, <<"stats">>)
                    /\ lcd'.header = lcd.header
            /\ g_headerIpInitialized'
            /\ g_prev' = HeaderValues(g_stats)]_vars
    /\ [](LET cached == [UiState EXCEPT !.hinit = TRUE,
                                        !.prev = HeaderValues(g_stats)]
          IN  /\ drawHeaderAndIpIfNeeded(cached, g_stats) = cached
              /\ \A f \in HeaderFields :
                   LET drawn == drawHeaderAndIpIfNeeded(
                                    cached, OtherText(g_stats, f))
                   IN  /\ drawn.log = Append(drawLog, <<"header">>)
                       /\ drawn.prev = HeaderValues(OtherText(g_stats, f)))

\* C17 witness: the first redraw drew "pi@deck" from a line received in
\* that iteration; the second redraw, with the record unchanged, drew the
\* dynamic rows only.
C17_Witness ==
    /\ pc = "serial"
    /\ ticks = 2
    /\ g_animPhase = 2
    /\ nlEvents = <<>>
    /\ g_headerIpInitialized
    /\ g_prev.user = <<"p", "i">>
    /\ lcd.header = <<HeaderBlock(g_stats)>>
    /\ HeaderBlock(g_stats).head = <<"p", "i", "@", "d", "e", "c", "k">>
    /\ drawLog = <<<<"stats">>>>

\* The pieces of s between its newlines; the last piece is unterminated.
RECURSIVE RefSegments(_)
RefSegments(s) ==
    LET at == {i \in 1..Len(s) : s[i] = LF}
    IN  IF at = {} THEN <<s>>
        ELSE <<SubSeq(s, 1, MinOf(at) - 1)>>
                 \o RefSegments(SubSeq(s, MinOf(at) + 1, Len(s)))

\* C18: every iteration of loop() first consumes all the bytes available,
\* one newline event per newline and the unterminated rest left in the
\* buffer, and merges every completed line; then it handles the buttons in
\* the order A, B, C; then it does the work of the mode. The record and the
\* buffer change only in the first part, the mode only in a button handler,
\* and a dashboard redraw shows the header and the rows of the record as
\* the serial part of the same iteration left it.
C18_SerialThenButtonsThenRender ==
    /\ [][pc' = NextPart[pc]]_vars
    /\ [][pc = "serial" =>
            \E bytes \in LoopArrivals :
                LET segs == RefSegments(g_lineBuffer \o bytes)
                IN  /\ Len(nlEvents') = Len(segs) - 1
                    /\ \A i \in 1..Len(nlEvents') : nlEvents'[i].buf = segs[i]
                    /\ g_lineBuffer' = segs[Len(segs)]
                    /\ g_stats' = RefMergeEvents(nlEvents', 1, g_stats)]_vars
    /\ [][pc # "serial" =>
            /\ g_stats' = g_stats
            /\ g_lineBuffer' = g_lineBuffer
            /\ nlEvents' = nlEvents]_vars
    /\ [][g_mode' # g_mode => EdgeStep]_vars
    /\ [][RedrawStep =>
            /\ lcd'.dyn = <<DynRows(g_stats)>>
            /\ lcd'.header = <<HeaderBlock(g_stats)>>]_vars

\* C18 witness: in the second iteration a line naming user, hostname and
\* local IP arrived, button A was pressed, and the redraw of that same
\* iteration shows "pi@deck" and the address.
C18_Witness ==
    /\ pc = "serial"
    /\ ticks = 2
    /\ g_animPhase = 2
    /\ Len(nlEvents) = 1
    /\ nlEvents[1].parsed
    /\ btn.A
    /\ drawLog = <<<<"frame">>, <<"header">>, <<"stats">>>>
    /\ lcd.header[1].head = <<"p", "i", "@", "d", "e", "c", "k">>
    /\ lcd.header[1].lan = <<"1", "0", ".", "0", ".", "0", ".", "2">>
    /\ lcd.dyn = <<DynRows(g_stats)>>

\* The twelve keys of the wire format.
RecognisedKeys == {KeyName[f] : f \in Fields}

\* Every valid token of `line` carries a key outside the twelve.
OnlyUnrecognised(line) ==
    /\ \E i \in 1..Len(RefSplit(line)) : RefValid(RefSplit(line)[i])
    /\ \A i \in 1..Len(RefSplit(line)) :
            RefValid(RefSplit(line)[i]) =>
                RefKey(RefSplit(line)[i]) \notin RecognisedKeys

\* C19: a line whose valid tokens all carry unrecognised keys (a key that
\* differs from a recognised one only in case, load_1 of the other firmware
\* variant, a prefix of a recognised key, an unknown word) leaves every
\* field of the record as it was, however often it is parsed.
C19_UnrecognisedKeysIgnored ==
    (calls >= 1 /\ OnlyUnrecognised(callLine)) => g_stats = callBase

\* C19 witness: 'CPU=99;load_1=0.5;bogus=1' was parsed into a record whose
\* cpu is 12.5, and 'Time=1;cpu_temp=50;ram=2; Hostname = x' can be.
C19_Witness ==
    /\ calls = MaxCalls
    /\ callLine = TL_unknown
    /\ OnlyUnrecognised(TL_unknown)
    /\ OnlyUnrecognised(TL_near)
    /\ callBase = parseStatsLine(TL_cpu_ram, DefaultStats)
    /\ callBase.cpu # DefaultStats.cpu
    /\ g_stats = callBase

\* A byte stream with its carriage returns removed.
StripCR(bytes) == SelectSeq(bytes, LAMBDA c : c # CR)

\* The arrivals that hold a carriage return.
WithCR == {bytes \in Arrivals : StripCR(bytes) # bytes}

\* The state processSerialInput starts from.
SerialNow ==
    [buf |-> g_lineBuffer, stats |-> g_stats, events |-> <<>>, rx |-> rxCount]

\* C20: a carriage return changes neither the line buffer nor the record,
\* and from every state the bytes of an arrival give the same newline
\* events, the same buffer and the same record as the arrival with its
\* carriage returns removed (arrivals without one are their own stripped
\* form).
C20_CarriageReturnIgnored ==
    /\ ProcessByte(SerialNow, CR) = SerialNow
    /\ \A bytes \in WithCR :
            ProcessBytes(SerialNow, bytes, 1, Len(bytes))
                = ProcessBytes(SerialNow, StripCR(bytes), 1,
                               Len(StripCR(bytes)))

\* C20 witness: 'cp\ru=1\r2\r\n' arrived and was parsed as 'cpu=12'.
C20_Witness ==
    /\ Len(nlEvents) = 1
    /\ nlEvents[1].parsed
    /\ nlEvents[1].line = <<"c", "p", "u", "=", "1", "2">>
    /\ g_stats.cpu = toFloat(<<"1", "2">>)
    /\ g_lineBuffer = <<>>
    /\ TL_cr_inside \o <<CR, LF>> \in Arrivals
    /\ StripCR(TL_cr_inside) # TL_cr_inside

\* C21: every bar drawn fills a width between 0 and its inner width (w - 2);
\* a percent above 100 fills the whole inner width, as 100 does, a percent
\* below 0 fills nothing, as 0 does; and the bar with the scanline overlay
\* fills the width the plain bar fills.
C21_BarFilledClamped ==
    bars # NoBars =>
        \A k \in {"cpu", "ram"} :
            LET b == bars[k]
            IN  /\ b.painted \in 0..b.inner
                /\ (FloatAbove100(b.percent) \/ b.percent = Dec(100, 0))
                        => b.painted = b.inner
                /\ (FloatNegative(b.percent) \/ b.percent = FloatZero)
                        => b.painted = 0
                /\ b.scan # "none" =>
                        \E n \in IntOfNaN :
                            b.painted
                                = drawBar(b.inner + 2, b.percent, n).painted

\* The records loop() can hold when only whole lines have been merged: the
\* default record and those it becomes by merging the complete lines the
\* pieces can form (some first pieces, then a piece that ends in a newline),
\* in any order.
WholeLineRecords ==
    LET heads == {<<>>, TL_split_head, TL_split_head \o TL_split_head,
                  TL_split_head \o TL_split_head \o TL_split_head}
        lines == {h \o t : h \in heads, t \in {TL_split_tail, TL_tail}}
        one == {DefaultStats} \cup {RefMergeLine(l, DefaultStats) : l \in lines}
        two == one \cup {RefMergeLine(l, r) : l \in lines, r \in one}
    IN  two \cup {RefMergeLine(l, r) : l \in lines, r \in two}

\* C22: the record changes only in the serial part of an iteration and only
\* when a newline ended a non-empty line; a byte other than the newline
\* leaves it as it is; what the serial part leaves is the merge of the
\* whole lines it completed; and whenever a button handler or a renderer
\* runs the record is one that whole lines alone produce.
C22_RecordChangesByWholeLines ==
    /\ [][g_stats' # g_stats =>
            /\ pc = "serial"
            /\ \E i \in 1..Len(nlEvents') : nlEvents'[i].parsed]_vars
    /\ [][pc = "serial" => g_stats' = RefMergeEvents(nlEvents', 1, g_stats)]_vars
    /\ [](\A c \in SerialBytes \ {LF} :
              ProcessByte(SerialNow, c).stats = g_stats)
    /\ [](pc # "serial" => g_stats \in WholeLineRecords)
    /\ [][RedrawStep =>
            /\ lcd'.dyn = <<DynRows(g_stats)>>
            /\ lcd'.header = <<HeaderBlock(g_stats)>>]_vars

\* C22 witness: 'user=pi;ho' arrived in the first iteration, and its redraw
\* showed no user; 'stname=deck' and the newline arrived in the second, and
\* its redraw shows "pi@deck".
C22_Witness ==
    /\ pc = "serial"
    /\ ticks = 2
    /\ g_animPhase = 2
    /\ g_lineBuffer = <<>>
    /\ Len(nlEvents) = 1
    /\ nlEvents[1].line = TL_split_line
    /\ g_stats = RefMergeLine(TL_split_line, DefaultStats)
    /\ lcd.header = <<HeaderBlock(g_stats)>>
    /\ lcd.header[1].head = <<"p", "i", "@", "d", "e", "c", "k">>

\* C23: while at most 512 bytes other than CR have arrived since the last
\* newline the buffer holds all of them; a newline that follows exactly 512
\* hands all 512, trimmed, to the parser; and a further byte that arrives
\* while the buffer holds 512 empties the buffer and is itself dropped,
\* while a byte that arrives earlier is appended.
C23_ExactlyFullLineAccepted ==
    /\ [](rxCount <= LINE_MAX => Len(g_lineBuffer) = rxCount)
    /\ [](\A i \in 1..Len(nlEvents) :
            nlEvents[i].raw = LINE_MAX =>
                /\ Len(nlEvents[i].buf) = LINE_MAX
                /\ nlEvents[i].line = Trim(nlEvents[i].buf)
                /\ nlEvents[i].parsed = (Len(nlEvents[i].line) > 0))
    /\ [](\A c \in SerialBytes \ {CR, LF} :
            ProcessByte(SerialNow, c).buf
                = IF Len(g_lineBuffer) = LINE_MAX THEN <<>>
                  ELSE Append(g_lineBuffer, c))
    /\ [](Len(g_lineBuffer) = LINE_MAX =>
            LET st == ProcessByte(SerialNow, LF)
            IN  /\ st.buf = <<>>
                /\ st.events[1].buf = g_lineBuffer
                /\ st.events[1].line = Trim(g_lineBuffer))

\* C23 witness: 512 'x' bytes and then a newline arrived, and the line of
\* 512 bytes was handed to the parser.
C23_Witness ==
    /\ Len(nlEvents) = 1
    /\ nlEvents[1].raw = LINE_MAX
    /\ nlEvents[1].parsed
    /\ nlEvents[1].line = Fill(LINE_MAX)
    /\ g_lineBuffer = <<>>

\* The serial part of an iteration assembled the lines of some arrival and
\* merged the non-empty ones into the record.
LinesAssembledAndMerged ==
    \E bytes \in LoopArrivals :
        LET segs == RefSegments(g_lineBuffer \o bytes)
        IN  /\ Len(nlEvents') = Len(segs) - 1
            /\ \A i \in 1..Len(nlEvents') :
                    /\ nlEvents'[i].buf = segs[i]
                    /\ nlEvents'[i].parsed = (Trim(segs[i]) # <<>>)
            /\ g_lineBuffer' = segs[Len(segs)]
            /\ g_stats' = RefMergeEvents(nlEvents', 1, g_stats)

\* C24: in each of the three modes the serial part of an iteration
\* assembles and merges the arriving lines in the same way, and changes
\* neither the mode nor the catalog cursor nor the matrix state; a button
\* handler changes neither the record nor the line buffer.
C24_SerialAndModeIndependent ==
    /\ [][pc = "serial" =>
            /\ LinesAssembledAndMerged
            /\ g_mode' = g_mode
            /\ g_currentArtIndex' = g_currentArtIndex
            /\ g_matrixInitialized' = g_matrixInitialized
            /\ g_matrixDropY' = g_matrixDropY
            /\ g_matrixTrailLen' = g_matrixTrailLen]_vars
    /\ [][(pc \in {"btnA", "btnB", "btnC"}) =>
            (g_stats' = g_stats /\ g_lineBuffer' = g_lineBuffer)]_vars

\* C24 witness: the rain is running, a line naming the user has just been
\* merged, and button B is about to be handled.
C24_Witness ==
    /\ pc = "btnA"
    /\ btn.B
    /\ g_mode = MODE_MATRIX
    /\ g_matrixInitialized
    /\ Len(nlEvents) = 1
    /\ nlEvents[1].parsed
    /\ g_stats = RefMergeLine(TL_identity, DefaultStats)
    /\ lcd.frame = FALSE

\* The non-empty lines of a newline-terminated stream, trimmed, in order.
RECURSIVE RefTrimmedLines(_, _)
RefTrimmedLines(segs, i) ==
    IF i >= Len(segs) THEN <<>>
    ELSE (IF Trim(StripCR(segs[i])) # <<>> THEN <<Trim(StripCR(segs[i]))>>
          ELSE <<>>)
             \o RefTrimmedLines(segs, i + 1)

RefStreamLines(stream) == RefTrimmedLines(RefSegments(stream), 1)

\* The record after merging lines[i..] into r, one after the other.
RECURSIVE RefMergeLines(_, _, _)
RefMergeLines(lines, i, r) ==
    IF i > Len(lines) THEN r
    ELSE RefMergeLines(lines, i + 1, RefMergeLine(lines[i], r))

\* C25: with loop() called again and again and a stream of
\* newline-terminated lines of at most 512 bytes arriving in pieces, the
\* lines handed to the parser are at all times the first non-empty lines of
\* the stream in their order; eventually all of them have been handed over
\* and the record is the merge of all of them, whatever modes the buttons
\* select on the way; and every iteration that starts to drain the port
\* gets on to the buttons.
C25_EveryLineEventuallyMerged ==
    /\ [](/\ Len(parsedLog) <= Len(RefStreamLines(callLine))
          /\ parsedLog = SubSeq(RefStreamLines(callLine), 1, Len(parsedLog)))
    /\ <>[](/\ wire = <<>>
            /\ g_lineBuffer = <<>>
            /\ parsedLog = RefStreamLines(callLine)
            /\ g_stats = RefMergeLines(parsedLog, 1, DefaultStats))
    /\ [][g_stats' # g_stats => Len(parsedLog') > Len(parsedLog)]_vars
    /\ ((pc = "serial" /\ ticks < MaxLiveTicks) ~> (pc = "btnA"))

\* C25 witness: the stream 'user=pi;ho' | 'stname=deck\n\ncpu=' | '7\n' has
\* arrived in three iterations while the rain was running, and both of its
\* non-empty lines were merged in order.
C25_Witness ==
    /\ callLine = Flatten(LS_pieces)
    /\ wire = <<>>
    /\ ticks = 3
    /\ g_mode = MODE_MATRIX
    /\ parsedLog = <<TL_split_line, <<"c", "p", "u", "=", "7">>>>
    /\ g_stats.cpu = Dec(7, 0)
    /\ g_stats.hostname = <<"d", "e", "c", "k">>

\* C26: the edges latched in one iteration are applied in the order A, B,
\* C.  Once all three handlers have run the mode is the rain if C was
\* pressed, else ASCII art if B was, else the dashboard if A was.  When A
\* and B are pressed together, A has made the mode the dashboard (keeping
\* the cursor) by the time B is handled, so B enters ASCII art afresh with
\* the cursor on the first entry, also when the iteration began in ASCII
\* art.
C26_EdgesAppliedInOrder ==
    /\ [](pc = "render" =>
            g_mode = IF btn.C THEN MODE_MATRIX
                     ELSE IF btn.B THEN MODE_ART
                     ELSE IF btn.A THEN MODE_DASHBOARD
                     ELSE g_mode)
    /\ [][(pc = "btnA" /\ btn.A) =>
            (g_mode' = MODE_DASHBOARD
                /\ g_currentArtIndex' = g_currentArtIndex)]_vars
    /\ [][(pc = "btnB" /\ btn.A /\ btn.B) =>
            (g_mode = MODE_DASHBOARD /\ g_mode' = MODE_ART
                /\ g_currentArtIndex' = 0 /\ artShown' = <<0>>)]_vars
    /\ [][(pc = "btnB" /\ ~btn.A /\ btn.B /\ g_mode = MODE_ART) =>
            g_currentArtIndex' = (g_currentArtIndex + 1) % g_numAsciiArts]_vars
    /\ [][(pc = "btnC" /\ btn.C) => g_mode' = MODE_MATRIX]_vars

\* C26 witness: the third iteration latched A and B together after two
\* iterations with B alone; the frame of the dashboard and then the first
\* artwork were drawn, and the mode is ASCII art.
C26_Witness ==
    /\ pc = "render"
    /\ ticks = 2
    /\ btn = [A |-> TRUE, B |-> TRUE, C |-> FALSE]
    /\ g_mode = MODE_ART
    /\ g_currentArtIndex = 0
    /\ artShown = <<0>>
    /\ drawLog = <<<<"frame">>, <<"art", 0>>>>
    /\ ~g_headerIpInitialized

\* The visible rows of column c at most its trail length behind the head
\* that the last matrixStep drew, which is one row above the head to draw
\* next.
LitWindow(c) ==
    {r \in 0..(MatrixRows - 1) :
        /\ g_matrixDropY[c] - 1 - g_matrixTrailLen[c] < r
        /\ r <= g_matrixDropY[c] - 1}

\* C27: in matrix rain mode, after every matrixStep, the cells of a column
\* that hold a character are exactly the visible rows less than its trail
\* length behind the last drawn head, so they are never more than the trail
\* length; the step in which a column respawns leaves none of its cells on
\* the screen.
C27_TrailCellsExact ==
    /\ []((g_mode = MODE_MATRIX /\ g_matrixInitialized) =>
            \A c \in MatrixCols :
                /\ lcd.rain[c] = LitWindow(c)
                /\ Cardinality(lcd.rain[c]) <= g_matrixTrailLen[c])
    /\ [][RainStep =>
            \A c \in MatrixCols :
                OffScreenNext(c) => lcd'.rain[c] = {}]_vars

\* C27 witness: column 0 respawned 29 rows above the screen seven steps ago
\* (the rain was seeded more than 30 iterations ago) and none of its cells
\* is left, while column 1 is in the middle of its fall with as many cells
\* on the screen as its trail is long.
C27_Witness ==
    /\ pc = "serial"
    /\ ticks > MatrixRows
    /\ g_mode = MODE_MATRIX
    /\ g_matrixInitialized
    /\ g_matrixDropY[0] = 8 - MatrixRows
    /\ lcd.rain[0] = {}
    /\ g_matrixDropY[1] \in 1..(MatrixRows - 1)
    /\ g_matrixTrailLen[1] = MATRIX_TRAIL_MAX_ROWS
    /\ Cardinality(lcd.rain[1]) = g_matrixTrailLen[1]

\* C28: a dashboard redraw leaves the header/IP block of the record's
\* current user, hostname, local IP and public IP on the screen; in
\* dashboard mode a valid cache holds what the screen shows, so a skipped
\* drawing leaves nothing blank or stale; every step that enters dashboard
\* mode or clears the block leaves the cache invalid, as setup() does.
C28_HeaderShowsRecord ==
    /\ [][RedrawStep => lcd'.header = <<HeaderBlock(g_stats')>>]_vars
    /\ []((g_mode = MODE_DASHBOARD /\ g_headerIpInitialized)
            => lcd.header = <<HeaderBlock(g_prev)>>)
    /\ []((g_mode = MODE_DASHBOARD /\ lcd.header = <<>>)
            => ~g_headerIpInitialized)
    /\ [][((g_mode # MODE_DASHBOARD /\ g_mode' = MODE_DASHBOARD)
            \/ (lcd.header # <<>> /\ lcd'.header = <<>>))
          => (~g_headerIpInitialized' \/ g_mode' # MODE_DASHBOARD)]_vars

\* C28 witness: the dashboard drew "pi@deck", the rain then cleared the
\* screen, and the third iteration handled button A and redrew the
\* dashboard with the block of the record, no line having arrived in it.
C28_Witness ==
    /\ pc = "serial"
    /\ ticks = 3
    /\ g_mode = MODE_DASHBOARD
    /\ g_matrixInitialized
    /\ g_animPhase = 2
    /\ nlEvents = <<>>
    /\ btn.A
    /\ drawLog = <<<<"frame">>, <<"header">>, <<"stats">>>>
    /\ lcd.header = <<HeaderBlock(g_stats)>>
    /\ lcd.header[1].wan = <<"n", "/", "a">>
    /\ Len(g_stats.user) > 0

\* The time t as milliseconds after the wraparound of millis(), negative
\* before it, for a t less than 2^31 ms away from it.
RefSinceWrap(t) ==
    IF t.hi >= HALF \div 2 THEN (t.hi - HALF) * HALF + t.lo
    ELSE t.hi * HALF + t.lo

\* The time that has really passed since the last redraw.
RefElapsed == RefSinceWrap(clock) - RefSinceWrap(g_lastRedrawMs)

\* C29: millis() - g_lastRedrawMs, taken modulo 2^32, is the time that has
\* really passed since the last redraw, also when millis() has wrapped
\* around in between; in dashboard mode an iteration redraws exactly when
\* more than 200 ms have really passed, and the redraw records the time.
C29_GateAcrossWraparound ==
    /\ [](/\ RefElapsed >= 0
          /\ U32Sub(clock, g_lastRedrawMs) = U32(RefElapsed))
    /\ [][(pc = "render" /\ g_mode = MODE_DASHBOARD)
          => (/\ RedrawStep <=> RefElapsed > REDRAW_MS
              /\ (g_lastRedrawMs' = clock) <=> RefElapsed > REDRAW_MS
              /\ (g_lastRedrawMs' = g_lastRedrawMs)
                   <=> RefElapsed <= REDRAW_MS)]_vars

\* C29 witness: the last redraw was 105 ms old at 2^32 - 1; the first
\* iteration did not redraw, millis() wrapped around, and the second
\* iteration, at 99 with 205 ms passed, redrew (the phase counter went
\* from 255 to 0).
C29_Witness ==
    /\ pc = "serial"
    /\ ticks = 2
    /\ g_mode = MODE_DASHBOARD
    /\ g_animPhase = 0
    /\ g_lastRedrawMs = U32(REDRAW_MS \div 2 - 1)
    /\ btn = NoEdge
    /\ drawLog = <<<<"stats">>>>

====
